---- MODULE Spec2Model ----
(***************************************************************************)
(* Model of the target / objective transformation pipeline of baybe:       *)
(*   src/baybe/targets.py                 NumericalTarget, Objective       *)
(*   src/baybe/objectives/desirability.py DesirabilityObjective            *)
(* A caller constructs one object (the constructor either raises or hands  *)
(* out an immutable instance) and then calls transform on it any number of *)
(* times.  Numbers are exact rationals <<n, d>>; a zero denominator stands *)
(* for the IEEE specials numpy produces on a division by zero              *)
(* (<<1,0>> = inf, <<-1,0>> = -inf, <<0,0>> = nan).                        *)
(***************************************************************************)
EXTENDS Integers, Sequences, FiniteSets

VARIABLES obj, call, out

vars == <<obj, call, out>>

(***************************************************************************)
(* Bounds of the model.                                                    *)
(***************************************************************************)
\* finite interval ends are drawn from 0..MaxBound, data values from
\* -1..MaxBound+1 (one value below and one above every finite interval)
MaxBound == 2
\* user-supplied weights are drawn from -1..MaxWeight
MaxWeight == 2
\* an objective is constructed from at most MaxTargets targets
MaxTargets == 2
\* at most MaxCallers callers are inside transform at the same time
MaxCallers == 2

(***************************************************************************)
(* Exact rational arithmetic (numpy float arithmetic without rounding).    *)
(***************************************************************************)
Abs(x) == IF x < 0 THEN -x ELSE x

Sign(x) == IF x < 0 THEN -1 ELSE IF x = 0 THEN 0 ELSE 1

RECURSIVE Gcd(_, _)
Gcd(a, b) == IF b = 0 THEN a ELSE Gcd(b, a % b)

\* the canonical form of n/d: lowest terms, d > 0; n/0 is inf, -inf or nan
Rat(n, d) ==
    IF d = 0 THEN <<Sign(n), 0>>
    ELSE LET g == Gcd(Abs(n), Abs(d))
             s == Sign(d)
         IN  <<(s * n) \div g, (s * d) \div g>>

RatInt(x) == <<x, 1>>

IsNan(a) == a[1] = 0 /\ a[2] = 0

RatNeg(a) == <<-a[1], a[2]>>

\* inf + -inf = nan, anything + nan = nan, inf + finite = inf
RatAdd(a, b) ==
    IF a[2] # 0 /\ b[2] # 0 THEN Rat(a[1] * b[2] + b[1] * a[2], a[2] * b[2])
    ELSE IF IsNan(a) \/ IsNan(b) THEN <<0, 0>>
    ELSE IF a[2] = 0 /\ b[2] = 0
         THEN (IF a[1] = b[1] THEN a ELSE <<0, 0>>)
    ELSE IF a[2] = 0 THEN a ELSE b

RatSub(a, b) == RatAdd(a, RatNeg(b))

\* 0 * inf = nan falls out of Rat(0, 0)
RatMul(a, b) == Rat(a[1] * b[1], a[2] * b[2])

\* x / 0 = +-inf, 0 / 0 = nan, inf / inf = nan
RatDiv(a, b) ==
    IF a[2] = 0 /\ b[2] = 0 THEN <<0, 0>>
    ELSE Rat(a[1] * b[2] * (IF b[1] < 0 THEN -1 ELSE 1),
             a[2] * Abs(b[1]))

\* comparisons are false as soon as a nan is involved
RatLt(a, b) ==
    /\ ~IsNan(a) /\ ~IsNan(b)
    /\ IF a[2] # 0 /\ b[2] # 0 THEN a[1] * b[2] < b[1] * a[2]
       ELSE IF a[2] = 0 /\ b[2] = 0 THEN a[1] < b[1]
       ELSE IF a[2] = 0 THEN a[1] < 0 ELSE b[1] > 0

RatLe(a, b) == ~IsNan(a) /\ ~IsNan(b) /\ (a = b \/ RatLt(a, b))

RECURSIVE RatSum(_)
RatSum(s) == IF s = <<>> THEN <<0, 1>> ELSE RatAdd(Head(s), RatSum(Tail(s)))

(***************************************************************************)
(* Interval (baybe.utils.Interval, imported at targets.py:18-26).  An end  *)
(* is [fin |-> TRUE, val |-> x] or the infinite end of its side.           *)
(***************************************************************************)
Inf == [fin |-> FALSE, val |-> 0]

Fin(x) == [fin |-> TRUE, val |-> x]

Interval(lo, hi) == [lower |-> lo, upper |-> hi]

\* convert_bounds(None): the unbounded interval (-inf, inf)
convert_bounds_default == Interval(Inf, Inf)

\* both ends finite
is_finite(b) == b.lower.fin /\ b.upper.fin

\* at least one end finite
is_bounded(b) == b.lower.fin \/ b.upper.fin

to_tuple(b) == <<b.lower.val, b.upper.val>>

(***************************************************************************)
(* Results of a call: a constructor or transform either raises (status is  *)
(* the exception class, no value) or returns normally (status "ok").       *)
(***************************************************************************)
NoObject == [cls |-> "None"]

NoOutput == <<>>

Raise(exc) == [status |-> exc, value |-> NoObject, output |-> NoOutput]

Return(o) == [status |-> "ok", value |-> o, output |-> NoOutput]

Yield(v) == [status |-> "ok", value |-> NoObject, output |-> v]

\* the first exception of a sequence of validator outcomes, else "ok"
RECURSIVE FirstError(_)
FirstError(s) ==
    IF s = <<>> THEN "ok"
    ELSE IF Head(s) # "ok" THEN Head(s) ELSE FirstError(Tail(s))

(***************************************************************************)
(* Bound transform functions (baybe.utils.bound_linear, bound_triangular,  *)
(* bound_bell, imported at targets.py:18-26), on one raw value.  A cell of *)
(* a transformed column is the rational n/d, or, for the bell curve, the   *)
(* value exp(-(n/d)/2).                                                    *)
(***************************************************************************)
Num(r) == [k |-> "num", n |-> r[1], d |-> r[2]]

Bell(r) == [k |-> "bell", n |-> r[1], d |-> r[2]]

RatOf(c) == <<c.n, c.d>>

bound_linear(x, lower, upper, descending) ==
    LET res == Rat(x - lower, upper - lower)
    IN  IF x > upper THEN (IF descending THEN <<0, 1>> ELSE <<1, 1>>)
        ELSE IF x < lower THEN (IF descending THEN <<1, 1>> ELSE <<0, 1>>)
        ELSE IF descending THEN RatSub(<<1, 1>>, res) ELSE res

bound_triangular(x, lower, upper) ==
    LET mid == Rat(lower + upper, 2)
        v   == RatInt(x)
    IN  IF x < lower \/ x > upper THEN <<0, 1>>
        ELSE IF RatLe(v, mid)
             THEN RatDiv(RatSub(v, RatInt(lower)), RatSub(mid, RatInt(lower)))
             ELSE RatDiv(RatSub(RatInt(upper), v), RatSub(RatInt(upper), mid))

\* exp(-z^2 / 2) with z = (x - mid) / std, std = (upper - lower) / 2; the
\* cell keeps z^2
bound_bell(x, lower, upper) ==
    LET mid == Rat(lower + upper, 2)
        std == Rat(upper - lower, 2)
        z   == RatDiv(RatSub(RatInt(x), mid), std)
    IN  RatMul(z, z)

(***************************************************************************)
(* NumericalTarget (targets.py:79-180).                                    *)
(***************************************************************************)
Modes == {"MIN", "MAX", "MATCH"}

_VALID_TRANSFORMS(mode) ==
    CASE mode = "MAX"   -> <<"LINEAR">>
      [] mode = "MIN"   -> <<"LINEAR">>
      [] mode = "MATCH" -> <<"TRIANGULAR", "BELL">>

InSeq(x, s) == \E i \in DOMAIN s : s[i] = x

\* faulty variant: the last valid transform of the mode is taken
_default_bounds_transform_func_last(self) ==
    IF is_bounded(self.bounds)
    THEN _VALID_TRANSFORMS(self.mode)[Len(_VALID_TRANSFORMS(self.mode))]
    ELSE "None"

\* the default of the field bounds_transform_func ("None" is Python's None)
_default_bounds_transform_func(self) ==
    IF is_bounded(self.bounds) THEN _VALID_TRANSFORMS(self.mode)[1] ELSE "None"

\* faulty variant: the check of half-bounded intervals is missing
_validate_bounds_match_only(self, value) ==
    IF self.mode = "MATCH" /\ ~is_finite(value) THEN "ValueError" ELSE "ok"

\* faulty variant: the check of MATCH targets is missing
_validate_bounds_half_only(self, value) ==
    IF ~(is_finite(value) \/ ~is_bounded(value)) THEN "ValueError" ELSE "ok"

_validate_bounds(self, value) ==
    IF ~(is_finite(value) \/ ~is_bounded(value)) THEN "ValueError"
    ELSE IF self.mode = "MATCH" /\ ~is_finite(value) THEN "ValueError"
    ELSE "ok"

_validate_bounds_transform_func(self, value) ==
    IF value # "None" /\ ~InSeq(value, _VALID_TRANSFORMS(self.mode))
    THEN "ValueError"
    ELSE "ok"

\* the attrs-generated __init__: the fields are set in declaration order
\* (a field that is not passed, "NOTHING", takes its default), then the
\* validators run in declaration order
NumericalTarget(name, mode, bounds, func) ==
    LET partial == [name |-> name, mode |-> mode, bounds |-> bounds]
        f    == IF func = "NOTHING"
                THEN _default_bounds_transform_func(partial)
                ELSE func
        self == [cls |-> "NumericalTarget", name |-> name, mode |-> mode,
                 bounds |-> bounds, bounds_transform_func |-> f]
        err  == FirstError(<<_validate_bounds(self, bounds),
                             _validate_bounds_transform_func(self, f)>>)
    IN  IF err # "ok" THEN Raise(err) ELSE Return(self)

bounds_transform_funcs == {"LINEAR", "TRIANGULAR", "BELL"}

\* faulty variant: the two directions are swapped
partial_descending_swapped(mode) ==
    CASE mode = "MAX" -> "True"
      [] mode = "MIN" -> "False"
      [] OTHER        -> "unbound"

\* the keyword the mode binds with functools.partial (targets.py:168-171)
partial_descending(mode) ==
    CASE mode = "MAX" -> "False"
      [] mode = "MIN" -> "True"
      [] OTHER        -> "unbound"

\* whether the call func(values, lower, upper) fits the signature of the
\* function: bound_linear needs descending, the other two do not take it
SignatureFits(func, descending) == (func = "LINEAR") = (descending # "unbound")

\* func(value, lower, upper) on one raw value
ApplyBoundTransform(func, descending, x, lower, upper) ==
    CASE func = "LINEAR"     -> Num(bound_linear(x, lower, upper, descending = "True"))
      [] func = "TRIANGULAR" -> Num(bound_triangular(x, lower, upper))
      [] func = "BELL"       -> Bell(bound_bell(x, lower, upper))

\* faulty variant: the unbounded branch negates in mode MAX instead of MIN
NumericalTarget_transform_negates_max(self, data) ==
    IF is_bounded(self.bounds)
    THEN IF self.bounds_transform_func \notin bounds_transform_funcs
         THEN Raise("KeyError")
         ELSE LET func  == self.bounds_transform_func
                  desc  == partial_descending(self.mode)
                  lower == to_tuple(self.bounds)[1]
                  upper == to_tuple(self.bounds)[2]
              IN  IF ~SignatureFits(func, desc)
                  THEN Raise("TypeError")
                  ELSE Yield([i \in DOMAIN data |->
                           ApplyBoundTransform(func, desc, data[i], lower, upper)])
    ELSE IF self.mode = "MAX"
         THEN Yield([i \in DOMAIN data |-> Num(RatNeg(RatInt(data[i])))])
         ELSE Yield([i \in DOMAIN data |-> Num(RatInt(data[i]))])

\* NumericalTarget.transform on a column of raw values
NumericalTarget_transform(self, data) ==
    IF is_bounded(self.bounds)
    THEN IF self.bounds_transform_func \notin bounds_transform_funcs
         THEN Raise("KeyError")
         ELSE LET func  == self.bounds_transform_func
                  desc  == partial_descending(self.mode)
                  lower == to_tuple(self.bounds)[1]
                  upper == to_tuple(self.bounds)[2]
              IN  IF ~SignatureFits(func, desc)
                  THEN Raise("TypeError")
                  ELSE Yield([i \in DOMAIN data |->
                           ApplyBoundTransform(func, desc, data[i], lower, upper)])
    ELSE IF self.mode = "MIN"
         THEN Yield([i \in DOMAIN data |-> Num(RatNeg(RatInt(data[i])))])
         ELSE Yield([i \in DOMAIN data |-> Num(RatInt(data[i]))])

(***************************************************************************)
(* Weight normalization.                                                   *)
(***************************************************************************)
IntsToRats(weights) == [i \in DOMAIN weights |-> RatInt(weights[i])]

\* targets.py:40-49: 100 * weights / sum(weights), no check of the entries
targets_normalize_weights(weights) ==
    LET array == IntsToRats(weights)
        total == RatSum(array)
    IN  Return([i \in DOMAIN array |-> RatDiv(RatMul(<<100, 1>>, array[i]), total)])

\* faulty variant: normalization to the sum 100 of the legacy normalizer
_normalize_weights_to_100(weights) ==
    LET array == IntsToRats(weights)
        total == RatSum(array)
    IN  IF ~(\A i \in DOMAIN array : RatLt(<<0, 1>>, array[i]))
        THEN Raise("ValueError")
        ELSE Return([i \in DOMAIN array |-> RatDiv(RatMul(<<100, 1>>, array[i]), total)])

\* desirability.py:23-38: weights / sum(weights), all entries must be > 0
_normalize_weights(weights) ==
    LET array == IntsToRats(weights)
        total == RatSum(array)
    IN  IF ~(\A i \in DOMAIN array : RatLt(<<0, 1>>, array[i]))
        THEN Raise("ValueError")
        ELSE Return([i \in DOMAIN array |-> RatDiv(array[i], total)])

\* the default weights of both classes: one unit weight per target
_default_weights(self) == [i \in DOMAIN self.targets |-> 1]

(***************************************************************************)
(* Objective (targets.py:183-280).                                         *)
(***************************************************************************)
min_len(n, value) == IF Len(value) < n THEN "ValueError" ELSE "ok"

in_(options, value) == IF value \in options THEN "ok" ELSE "ValueError"

\* faulty variant: the check of unbounded targets in mode DESIRABILITY is missing
Objective_validate_targets_single_only(self, targets) ==
    IF self.mode = "SINGLE" /\ Len(targets) # 1 THEN "ValueError" ELSE "ok"

Objective_validate_targets(self, targets) ==
    IF self.mode = "SINGLE" /\ Len(targets) # 1 THEN "ValueError"
    ELSE IF self.mode = "DESIRABILITY"
            /\ \E i \in DOMAIN targets : ~is_bounded(targets[i].bounds)
         THEN "ValueError"
    ELSE "ok"

Objective_validate_weights(self, weights) ==
    IF Len(weights) # Len(self.targets) THEN "ValueError" ELSE "ok"

\* the attrs-generated __init__ of Objective; weights is
\* [given |-> FALSE] when the argument is not passed
Objective(mode, targets, weights, combine_func) ==
    LET partial == [mode |-> mode, targets |-> targets]
        w    == targets_normalize_weights(
                    IF weights.given THEN weights.w ELSE _default_weights(partial))
        cf   == IF combine_func = "NOTHING" THEN "GEOM_MEAN" ELSE combine_func
        self == [cls |-> "Objective", mode |-> mode, targets |-> targets,
                 weights |-> w.value, combine_func |-> cf]
        err  == FirstError(<<min_len(1, targets),
                             Objective_validate_targets(self, targets),
                             Objective_validate_weights(self, w.value),
                             in_({"MEAN", "GEOM_MEAN"}, cf)>>)
    IN  IF err # "ok" THEN Raise(err) ELSE Return(self)

(***************************************************************************)
(* DesirabilityObjective (desirability.py:76-135).                         *)
(***************************************************************************)
_is_all_numerical_targets(x) == \A i \in DOMAIN x : x[i].cls = "NumericalTarget"

\* NumericalTarget.is_normalized (baybe.targets.numerical): the target maps
\* to the unit interval, i.e. it has finite bounds and a bound transform
is_normalized(target) ==
    is_finite(target.bounds) /\ target.bounds_transform_func # "None"

\* Scalarization(value): the enum of baybe.objectives.enum
Scalarizations == {"GEOM_MEAN", "MEAN"}

_validate_targets(self, targets) ==
    IF ~_is_all_numerical_targets(targets) THEN "ValueError"
    ELSE IF ~(\A i \in DOMAIN targets : is_normalized(targets[i])) THEN "ValueError"
    ELSE "ok"

\* faulty variant: the count of the weights is not compared with the targets
_validate_weights_skipped(self, weights) == "ok"

_validate_weights(self, weights) ==
    IF Len(weights) # Len(self.targets) THEN "ValueError" ELSE "ok"

\* the attrs-generated __init__ of DesirabilityObjective: the converters
\* run while the fields are set (a raising converter ends the call), the
\* validators afterwards
DesirabilityObjective(targets, weights, scalarization) ==
    LET partial == [targets |-> targets]
        w    == _normalize_weights(
                    IF weights.given THEN weights.w ELSE _default_weights(partial))
        sc   == IF scalarization = "NOTHING" THEN "GEOM_MEAN" ELSE scalarization
        self == [cls |-> "DesirabilityObjective", targets |-> targets,
                 weights |-> w.value, scalarization |-> sc]
        err  == FirstError(<<min_len(2, targets),
                             _validate_targets(self, targets),
                             _validate_weights(self, w.value)>>)
    IN  IF w.status # "ok" THEN Raise(w.status)
        ELSE IF sc \notin Scalarizations THEN Raise("ValueError")
        ELSE IF err # "ok" THEN Raise(err)
        ELSE Return(self)

(***************************************************************************)
(* Scalarization of the transformed targets, row by row.  A data table is  *)
(* a function from column names to columns of equal length; the row index  *)
(* is the position in the columns.                                         *)
(***************************************************************************)
Rows(data) == IF DOMAIN data = {} THEN {} ELSE DOMAIN data[CHOOSE c \in DOMAIN data : TRUE]

\* the weighted mean of one row; a row with a bell value stays a symbolic
\* weighted mean
average_row(cells, weights) ==
    IF \A j \in DOMAIN cells : cells[j].k = "num"
    THEN Num(RatDiv(RatSum([j \in DOMAIN cells |-> RatMul(RatOf(cells[j]), weights[j])]),
                    RatSum(weights)))
    ELSE [k |-> "mean", terms |-> cells, weights |-> weights]

\* partial(np.average, axis=1)(values, weights=weights): numpy raises
\* ZeroDivisionError when the weights sum to zero
average(values, weights) ==
    IF RatSum(weights) = <<0, 1>> THEN Raise("ZeroDivisionError")
    ELSE Yield([r \in DOMAIN values |-> average_row(values[r], weights)])

\* prod(x_j ** (w_j / sum(w))) of one row.  The product is exact when a
\* factor is 0 and when all factors are equal; otherwise the row stays a
\* symbolic product
geom_mean_row(cells, weights) ==
    LET total == RatSum(weights)
        e     == [j \in DOMAIN weights |-> RatDiv(weights[j], total)]
        plain == /\ \A j \in DOMAIN cells :
                       /\ cells[j].k = "num"
                       /\ RatLe(<<0, 1>>, RatOf(cells[j]))
                       /\ cells[j].d # 0
                 /\ \A j \in DOMAIN e : RatLt(<<0, 1>>, e[j]) /\ e[j][2] # 0
    IN  IF plain /\ \E j \in DOMAIN cells : RatOf(cells[j]) = <<0, 1>>
        THEN Num(<<0, 1>>)
        ELSE IF plain /\ cells # <<>> /\ \A j \in DOMAIN cells : cells[j] = cells[1]
        THEN cells[1]
        ELSE [k |-> "geom", terms |-> cells, exponents |-> e]

\* geom_mean(values, weights=weights) of baybe.utils
geom_mean(values, weights) ==
    Yield([r \in DOMAIN values |-> geom_mean_row(values[r], weights)])

\* faulty variant: a target without a column gets a column of nan
TransformTargets_fills_missing(self, data) ==
    LET rs  == [i \in DOMAIN self.targets |->
                   IF self.targets[i].name \in DOMAIN data
                   THEN NumericalTarget_transform(self.targets[i],
                                                  data[self.targets[i].name])
                   ELSE Yield([r \in Rows(data) |-> Num(<<0, 0>>)])]
        err == FirstError([i \in DOMAIN rs |-> rs[i].status])
    IN  IF err # "ok" THEN Raise(err)
        ELSE Yield([i \in DOMAIN rs |-> rs[i].output])

\* the transformed columns of the targets (the loop of both transform
\* methods), or the first exception
TransformTargets(self, data) ==
    IF \E i \in DOMAIN self.targets : self.targets[i].name \notin DOMAIN data
    THEN Raise("KeyError")
    ELSE LET rs  == [i \in DOMAIN self.targets |->
                        NumericalTarget_transform(self.targets[i],
                                                  data[self.targets[i].name])]
             err == FirstError([i \in DOMAIN rs |-> rs[i].status])
         IN  IF err # "ok" THEN Raise(err)
             ELSE Yield([i \in DOMAIN rs |-> rs[i].output])

\* transformed.values: the rows of the transformed columns
ValuesOf(columns, data) ==
    [r \in Rows(data) |-> [j \in DOMAIN columns |-> columns[j][r]]]

\* a table with the single column name
SingleColumn(name, vals) == [c \in {name} |-> vals]

\* Objective.transform after its loop (targets.py:266-280): columns are the
\* transformed columns in the order of the targets, index the table whose
\* rows they have
Objective_combine(self, columns, index) ==
    IF self.mode = "DESIRABILITY"
    THEN LET values == ValuesOf(columns, index)
             vals   == IF self.combine_func = "GEOM_MEAN"
                       THEN geom_mean(values, self.weights)
                       ELSE IF self.combine_func = "MEAN"
                       THEN average(values, self.weights)
                       ELSE Raise("ValueError")
         IN  IF vals.status # "ok" THEN vals
             ELSE Yield(SingleColumn("Comp_Target", vals.output))
    ELSE Yield([c \in {self.targets[i].name : i \in DOMAIN self.targets} |->
                 columns[CHOOSE i \in DOMAIN self.targets : self.targets[i].name = c]])

\* Objective.transform (targets.py:247-280)
Objective_transform(self, data) ==
    LET t == TransformTargets(self, data)
    IN  IF t.status # "ok" THEN t ELSE Objective_combine(self, t.output, data)

\* faulty variant: the two mechanisms are mixed up
scalarize_swapped(values, scalarization, weights) ==
    IF scalarization = "GEOM_MEAN" THEN average(values, weights)
    ELSE IF scalarization = "MEAN" THEN geom_mean(values, weights)
    ELSE Raise("NotImplementedError")

\* faulty variant: an unknown mechanism falls back to the weighted mean
scalarize_with_fallback(values, scalarization, weights) ==
    IF scalarization = "GEOM_MEAN" THEN geom_mean(values, weights)
    ELSE average(values, weights)

\* scalarize (desirability.py:48-73); scalarization is a member of an enum
scalarize(values, scalarization, weights) ==
    IF scalarization = "GEOM_MEAN" THEN geom_mean(values, weights)
    ELSE IF scalarization = "MEAN" THEN average(values, weights)
    ELSE Raise("NotImplementedError")

\* faulty variant: the desirability is added to the transformed columns
\* instead of being returned in a table of its own
DesirabilityObjective_transform_adds_column(self, data) ==
    LET t == TransformTargets(self, data)
    IN  IF t.status # "ok" THEN t
        ELSE LET vals == scalarize(ValuesOf(t.output, data), self.scalarization,
                                   self.weights)
             IN  IF vals.status # "ok" THEN vals
                 ELSE Yield([c \in {self.targets[i].name : i \in DOMAIN self.targets}
                                     \cup {"Desirability"} |->
                               IF c = "Desirability" THEN vals.output
                               ELSE t.output[CHOOSE i \in DOMAIN self.targets :
                                                 self.targets[i].name = c]])

\* DesirabilityObjective.transform after its loop (desirability.py:129-135)
DesirabilityObjective_combine(self, columns, index) ==
    LET vals == scalarize(ValuesOf(columns, index), self.scalarization, self.weights)
    IN  IF vals.status # "ok" THEN vals
        ELSE Yield(SingleColumn("Desirability", vals.output))

\* DesirabilityObjective.transform (desirability.py:121-135)
DesirabilityObjective_transform(self, data) ==
    LET t == TransformTargets(self, data)
    IN  IF t.status # "ok" THEN t
        ELSE DesirabilityObjective_combine(self, t.output, data)

(***************************************************************************)
(* Inputs of the calls.                                                    *)
(***************************************************************************)
\* target names, by position in an objective's target list
Names == <<"A", "B", "C", "D">>

\* raw measurement values
Values == (-1)..(MaxBound + 1)

FiniteIntervals ==
    {Interval(Fin(l), Fin(u)) : <<l, u>> \in {p \in (0..MaxBound) \X (0..MaxBound) : p[1] < p[2]}}

HalfIntervals ==
    {Interval(Fin(l), Inf) : l \in 0..MaxBound} \cup {Interval(Inf, Fin(u)) : u \in 0..MaxBound}

\* the bounds argument after convert_bounds; the default (None) is unbounded
BoundsInputs == {convert_bounds_default} \cup FiniteIntervals \cup HalfIntervals

\* the bounds_transform_func argument: not passed, None, or a name
FuncInputs == {"NOTHING", "None", "LINEAR", "TRIANGULAR", "BELL"}

\* sequences over S of length lo..hi
SeqsOf(S, lo, hi) == UNION {[1..n -> S] : n \in lo..hi}

\* the weights argument: not passed, or a list of numbers
WeightInputs ==
    {[given |-> FALSE, w |-> <<>>]}
        \cup {[given |-> TRUE, w |-> w] : w \in SeqsOf((-1)..MaxWeight, 0, MaxTargets)}

\* the targets that objectives are built from: what the constructor returns
\* for these arguments, under the name of the list position
WideInterval == Interval(Fin(0), Fin(MaxBound))

PoolArgs ==
    { <<"MAX", convert_bounds_default, "NOTHING">>,
      <<"MAX", WideInterval, "NOTHING">>,
      <<"MIN", WideInterval, "NOTHING">>,
      <<"MAX", WideInterval, "None">>,
      <<"MATCH", WideInterval, "NOTHING">> }

Pool(name) ==
    LET made == {NumericalTarget(name, a[1], a[2], a[3]) : a \in PoolArgs}
    IN  {r.value : r \in {m \in made : m.status = "ok"}}

\* a target that is no NumericalTarget (another subclass of Target)
OtherTarget(name) == [cls |-> "Target", name |-> name]

NumericalTargetLists ==
    {ts \in SeqsOf(UNION {Pool(Names[i]) : i \in 1..MaxTargets}, 0, MaxTargets) :
        \A i \in DOMAIN ts : ts[i].name = Names[i]}

TargetLists ==
    {ts \in SeqsOf(UNION {Pool(Names[i]) \cup {OtherTarget(Names[i])} : i \in 1..MaxTargets},
                   0, MaxTargets) :
        \A i \in DOMAIN ts : ts[i].name = Names[i]}

\* a column of raw values (one row)
Columns == [1..1 -> Values]

(***************************************************************************)
(* One object's life: a caller that holds nothing yet calls a constructor, *)
(* which raises or returns the instance obj, and then calls transform on   *)
(* obj any number of times.  call is the last call with its arguments and  *)
(* how it ended, out what the last transform returned.                     *)
(***************************************************************************)
NoCall == [op |-> "none", status |-> "ok", args |-> <<>>]

Init ==
    /\ obj = NoObject
    /\ call = NoCall
    /\ out = NoOutput

Construct(op, args, r) ==
    /\ obj' = r.value
    /\ call' = [op |-> op, status |-> r.status, args |-> args]
    /\ out' = NoOutput

NewNumericalTarget ==
    /\ call = NoCall
    /\ \E mode \in Modes, bounds \in BoundsInputs, func \in FuncInputs :
           Construct("NumericalTarget",
                     [mode |-> mode, bounds |-> bounds, func |-> func],
                     NumericalTarget(Names[1], mode, bounds, func))

NewObjective ==
    /\ call = NoCall
    /\ \E mode \in {"SINGLE", "DESIRABILITY"}, targets \in NumericalTargetLists,
          weights \in WeightInputs, combine_func \in {"NOTHING", "MEAN", "MEDIAN"} :
           Construct("Objective",
                     [mode |-> mode, targets |-> targets, weights |-> weights,
                      combine_func |-> combine_func],
                     Objective(mode, targets, weights, combine_func))

NewDesirabilityObjective ==
    /\ call = NoCall
    /\ \E targets \in TargetLists, weights \in WeightInputs,
          scalarization \in {"NOTHING", "MEAN", "MEDIAN"} :
           Construct("DesirabilityObjective",
                     [targets |-> targets, weights |-> weights,
                      scalarization |-> scalarization],
                     DesirabilityObjective(targets, weights, scalarization))

\* target.transform(data) by a caller that holds a target
TargetTransform ==
    /\ obj.cls = "NumericalTarget"
    /\ \E data \in Columns :
          LET r == NumericalTarget_transform(obj, data)
          IN  /\ call' = [op |-> "transform", status |-> r.status,
                          args |-> [data |-> data]]
              /\ out' = r.output
    /\ UNCHANGED obj

Next ==
    \/ NewNumericalTarget
    \/ NewObjective
    \/ NewDesirabilityObjective
    \/ TargetTransform

Spec == Init /\ [][Next]_vars

(***************************************************************************)
(* Transform calls.  The caller starts with an instance that a constructor *)
(* returned (objectives: for targets named after the first two list        *)
(* positions) and passes tables that hold any of the target columns and    *)
(* possibly a column that belongs to no target.  transform assigns to no   *)
(* field of the instance, so every call on an objective is taken from the  *)
(* state the constructor left.                                             *)
(***************************************************************************)
ExtraColumn == "X"

\* columns of two rows, with values at the ends of the widest interval
TwoRowColumns == [1..2 -> {0, MaxBound}]

\* the tables that hold any of the two target columns, all of them cols
TablesOver(cols) == UNION {[cs -> cols] : cs \in SUBSET {Names[1], Names[2]}}

\* the table t of n rows with one more column; the column of no target holds
\* one fixed value
WithExtraColumn(t, n) ==
    [c \in DOMAIN t \cup {ExtraColumn} |->
        IF c = ExtraColumn THEN [r \in 1..n |-> 0] ELSE t[c]]

Tables ==
    TablesOver(Columns) \cup {WithExtraColumn(t, 1) : t \in TablesOver(Columns)}
        \cup TablesOver(TwoRowColumns)
        \cup {WithExtraColumn(t, 2) : t \in TablesOver(TwoRowColumns)}

\* the arguments of a direct call of scalarize: arrays of one or two rows of
\* two scores in [0, 1], and a member of the enum Scalarization or a member,
\* here called MEDIAN, of another enum
Scores == {Num(<<0, 1>>), Num(<<1, 2>>), Num(<<1, 1>>)}

ScoreArrays == UNION {[1..n -> [1..2 -> Scores]] : n \in 1..2}

ScalarizeKinds == Scalarizations \cup {"MEDIAN"}

TwoTargetLists == {ts \in NumericalTargetLists : Len(ts) \in {1, 2}}

\* default weights, or a unit weight and any non-zero second weight
TableWeightInputs ==
    {w \in WeightInputs : w.given => (Len(w.w) = 2 /\ w.w[1] = 1 /\ w.w[2] # 0)}

InitObjective ==
    \E mode \in {"SINGLE", "DESIRABILITY"}, targets \in TwoTargetLists,
       weights \in TableWeightInputs, combine_func \in {"GEOM_MEAN", "MEAN"} :
        LET r == Objective(mode, targets, weights, combine_func)
        IN  /\ r.status = "ok"
            /\ obj = r.value
            /\ call = [op |-> "Objective", status |-> r.status,
                       args |-> [mode |-> mode, targets |-> targets,
                                 weights |-> weights, combine_func |-> combine_func]]

InitDesirabilityObjective ==
    \E targets \in TwoTargetLists, weights \in TableWeightInputs,
       scalarization \in {"GEOM_MEAN", "MEAN"} :
        LET r == DesirabilityObjective(targets, weights, scalarization)
        IN  /\ r.status = "ok"
            /\ obj = r.value
            /\ call = [op |-> "DesirabilityObjective", status |-> r.status,
                       args |-> [targets |-> targets, weights |-> weights,
                                 scalarization |-> scalarization]]

InitTarget ==
    \E mode \in Modes, bounds \in BoundsInputs, func \in FuncInputs :
        LET r == NumericalTarget(Names[1], mode, bounds, func)
        IN  /\ r.status = "ok"
            /\ obj = r.value
            /\ call = [op |-> "NumericalTarget", status |-> r.status,
                       args |-> [mode |-> mode, bounds |-> bounds, func |-> func]]

InitTransform ==
    /\ InitTarget \/ InitObjective \/ InitDesirabilityObjective
    /\ out = NoOutput

\* objective.transform(data) by a caller that holds a legacy Objective
ObjectiveTransform ==
    /\ obj.cls = "Objective"
    /\ call.op = "Objective"
    /\ \E data \in Tables :
          LET r == Objective_transform(obj, data)
          IN  /\ call' = [op |-> "transform", status |-> r.status,
                          args |-> [data |-> data]]
              /\ out' = r.output
    /\ UNCHANGED obj

\* objective.transform(data) by a caller that holds a DesirabilityObjective
DesirabilityTransform ==
    /\ obj.cls = "DesirabilityObjective"
    /\ call.op = "DesirabilityObjective"
    /\ \E data \in Tables :
          LET r == DesirabilityObjective_transform(obj, data)
          IN  /\ call' = [op |-> "transform", status |-> r.status,
                          args |-> [data |-> data]]
              /\ out' = r.output
    /\ UNCHANGED obj

\* scalarize(values, scalarization, objective.weights) by a caller that holds
\* a DesirabilityObjective
ScalarizeCall ==
    /\ obj.cls = "DesirabilityObjective"
    /\ call.op = "DesirabilityObjective"
    /\ \E values \in ScoreArrays, scalarization \in ScalarizeKinds :
          LET r == scalarize(values, scalarization, obj.weights)
          IN  /\ call' = [op |-> "scalarize", status |-> r.status,
                          args |-> [values |-> values,
                                    scalarization |-> scalarization,
                                    weights |-> obj.weights]]
              /\ out' = r.output
    /\ UNCHANGED obj

NextTransform ==
    \/ TargetTransform
    \/ ObjectiveTransform
    \/ DesirabilityTransform
    \/ ScalarizeCall

TransformSpec == InitTransform /\ [][NextTransform]_vars

(***************************************************************************)
(* Concurrent transform calls.  Callers share one constructed objective;   *)
(* each passes a table of its own and runs the statements of transform one *)
(* at a time, interleaved with the other callers: the selection of the     *)
(* target columns into the local frame transformed, one pass of the loop   *)
(* per target, the combination.  Here call[c] is the call of caller c and  *)
(* out[c] what it returned.  Tables hold cells, so that a frame that       *)
(* shares its columns with a table can write to it.                        *)
(***************************************************************************)
Callers == 1..MaxCallers

CellColumn(col) == [i \in DOMAIN col |-> Num(RatInt(col[i]))]

\* the raw values of a column of cells nothing has written to
RawColumn(col) == [i \in DOMAIN col |-> col[i].n]

RawTable(t) == [c \in DOMAIN t |-> RawColumn(t[c])]

\* one-row tables with the first or both target columns
ConcurrentTables ==
    {[c \in DOMAIN t |-> CellColumn(t[c])] :
        t \in UNION {[cs -> [1..1 -> {0, MaxBound}]] :
                        cs \in {{Names[1]}, {Names[1], Names[2]}}}}

TargetOf(name, args) == NumericalTarget(name, args[1], args[2], args[3]).value

\* the objectives the callers share: what the constructors return for a MAX
\* and a MIN target with finite bounds, and for a single target without
\* bounds or without transform
ConcurrentObjects ==
    LET a == TargetOf(Names[1], <<"MAX", WideInterval, "NOTHING">>)
        b == TargetOf(Names[2], <<"MIN", WideInterval, "NOTHING">>)
        u == TargetOf(Names[1], <<"MIN", convert_bounds_default, "NOTHING">>)
        n == TargetOf(Names[1], <<"MAX", WideInterval, "None">>)
        default == [given |-> FALSE, w |-> <<>>]
    IN  {r.value : r \in {m \in
            { DesirabilityObjective(<<a, b>>, [given |-> TRUE, w |-> <<1, 2>>], "MEAN"),
              DesirabilityObjective(<<a, b>>, default, "GEOM_MEAN"),
              Objective("DESIRABILITY", <<a, b>>, default, "MEAN"),
              Objective("SINGLE", <<u>>, default, "NOTHING"),
              Objective("SINGLE", <<n>>, default, "NOTHING") } : m.status = "ok"}}

NoFrame == [view |-> FALSE, cols |-> <<>>]

Idle == [pc |-> "idle", status |-> "ok", args |-> [data |-> <<>>],
         frame |-> NoFrame, i |-> 0]

\* faulty variant: the frame shares the columns of the table
select_view(data, names) ==
    [view |-> TRUE, cols |-> [c \in names |-> data[c]]]

\* data[[t.name for t in self.targets]].copy(): a frame of its own
select_copy(data, names) ==
    [view |-> FALSE, cols |-> [c \in names |-> data[c]]]

\* faulty variant: transformed is one frame shared by all callers
frame_owner_shared(c) == 1

\* transformed is a local variable of the call: each caller has its own
frame_owner(c) == c

InitConcurrent ==
    /\ obj \in ConcurrentObjects
    /\ call = [c \in Callers |-> Idle]
    /\ out = [c \in Callers |-> NoOutput]

\* caller c raises exc
Fail(c, exc) ==
    /\ call' = [call EXCEPT ![c].pc = "done", ![c].status = exc]
    /\ UNCHANGED <<obj, out>>

\* caller c enters objective.transform(data)
CallTransform(c) ==
    /\ call[c].pc = "idle"
    /\ \E data \in ConcurrentTables :
          call' = [call EXCEPT ![c].pc = "select", ![c].status = "running",
                               ![c].args = [data |-> data]]
    /\ UNCHANGED <<obj, out>>

\* transformed = data[[t.name for t in self.targets]].copy()
SelectColumns(c) ==
    /\ call[c].pc = "select"
    /\ IF \E i \in DOMAIN obj.targets : obj.targets[i].name \notin DOMAIN call[c].args.data
       THEN Fail(c, "KeyError")
       ELSE /\ call' = [call EXCEPT
                          ![frame_owner(c)].frame =
                              select_copy(call[c].args.data,
                                          {obj.targets[i].name : i \in DOMAIN obj.targets}),
                          ![c].pc = "loop",
                          ![c].i = 1]
            /\ UNCHANGED <<obj, out>>

\* transformed[target.name] = target.transform(data[target.name]) for the
\* next target; a frame that is a view writes through to the table
TransformColumn(c) ==
    /\ call[c].pc = "loop"
    /\ LET target == obj.targets[call[c].i]
           r      == NumericalTarget_transform(target,
                                               RawColumn(call[c].args.data[target.name]))
           view   == call[frame_owner(c)].frame.view
       IN  IF r.status # "ok" THEN Fail(c, r.status)
           ELSE /\ call' = [call EXCEPT
                              ![frame_owner(c)].frame.cols[target.name] = r.output,
                              ![c].args.data[target.name] =
                                  IF view THEN r.output ELSE @,
                              ![c].pc = IF call[c].i = Len(obj.targets)
                                        THEN "combine" ELSE "loop",
                              ![c].i = @ + 1]
                /\ UNCHANGED <<obj, out>>

\* the statements after the loop, and the return
Combine(c) ==
    /\ call[c].pc = "combine"
    /\ LET frame   == call[frame_owner(c)].frame
           columns == [j \in DOMAIN obj.targets |-> frame.cols[obj.targets[j].name]]
           r       == IF obj.cls = "DesirabilityObjective"
                      THEN DesirabilityObjective_combine(obj, columns, frame.cols)
                      ELSE Objective_combine(obj, columns, frame.cols)
       IN  /\ call' = [call EXCEPT ![c].pc = "done", ![c].status = r.status]
           /\ out' = [out EXCEPT ![c] = r.output]
    /\ UNCHANGED obj

NextConcurrent ==
    \E c \in Callers :
        \/ CallTransform(c)
        \/ SelectColumns(c)
        \/ TransformColumn(c)
        \/ Combine(c)

ConcurrentSpec == InitConcurrent /\ [][NextConcurrent]_vars

(***************************************************************************)
(* The scenarios of the documentation: target A (MAX, bounds [0, 10],      *)
(* LINEAR) and target B (MIN, bounds [0, 100], LINEAR) in a                *)
(* DesirabilityObjective with equal weights or the weights [1, 3], and     *)
(* transform calls on one-row tables.                                      *)
(***************************************************************************)
ScenarioTargets ==
    << TargetOf("A", <<"MAX", Interval(Fin(0), Fin(10)), "LINEAR">>),
       TargetOf("B", <<"MIN", Interval(Fin(0), Fin(100)), "LINEAR">>) >>

ScenarioWeights == {[given |-> FALSE, w |-> <<>>], [given |-> TRUE, w |-> <<1, 3>>]}

\* rows with A in 0, 1, ..., 10 and B in 0, 10, ..., 100
ScenarioTables ==
    {[c \in {"A", "B"} |-> IF c = "A" THEN <<a>> ELSE <<10 * b>>] :
        <<a, b>> \in (0..10) \X (0..10)}

InitScenario ==
    /\ \E weights \in ScenarioWeights, scalarization \in {"GEOM_MEAN", "MEAN"} :
          LET r == DesirabilityObjective(ScenarioTargets, weights, scalarization)
          IN  /\ obj = r.value
              /\ call = [op |-> "DesirabilityObjective", status |-> r.status,
                         args |-> [targets |-> ScenarioTargets, weights |-> weights,
                                   scalarization |-> scalarization]]
    /\ out = NoOutput

ScenarioTransform ==
    /\ obj.cls = "DesirabilityObjective"
    /\ call.op = "DesirabilityObjective"
    /\ \E data \in ScenarioTables :
          LET r == DesirabilityObjective_transform(obj, data)
          IN  /\ call' = [op |-> "transform", status |-> r.status,
                          args |-> [data |-> data]]
              /\ out' = r.output
    /\ UNCHANGED obj

ScenarioSpec == InitScenario /\ [][ScenarioTransform]_vars

(***************************************************************************)
(* The test of the deprecated objective configuration                      *)
(* (test_deprecations.py:81-115).  A configuration in the deprecated       *)
(* format has the keys mode, targets, combine_func and weights; a target   *)
(* is given by type, name, mode and bounds.  The test constructs the       *)
(* object it expects directly, from the same targets, the weights and the  *)
(* scalarization that combine_func names, before it deserializes the       *)
(* configuration and compares.                                             *)
(***************************************************************************)
ConfigNames == <<"Yield", "Waste">>

\* the bounds of a configuration: a list of two ends, a number or null
ConfigBounds == {<<Fin(0), Fin(1)>>, <<Inf, Inf>>}

TargetConfigs(name) ==
    [type : {"NumericalTarget"}, name : {name}, mode : Modes, bounds : ConfigBounds]

Configs ==
    [mode : {"DESIRABILITY"},
     targets : {ts \in SeqsOf(TargetConfigs(ConfigNames[1]) \cup TargetConfigs(ConfigNames[2]),
                              1, 2) :
                   \A i \in DOMAIN ts : ts[i].name = ConfigNames[i]},
     combine_func : {"MEAN", "GEOM_MEAN", "MEDIAN"},
     weights : {w \in WeightInputs : w.given}]

\* convert_bounds on a list of two ends
convert_bounds(bounds) == Interval(bounds[1], bounds[2])

\* the targets of a configuration constructed directly, one by one, as at
\* lines 107-110
DirectTargets(config) ==
    [i \in DOMAIN config.targets |->
        NumericalTarget(config.targets[i].name, config.targets[i].mode,
                        convert_bounds(config.targets[i].bounds), "NOTHING")]

\* DesirabilityObjective(**kwargs): the keywords of the attrs-generated
\* __init__ are the names of the fields, of which targets has no default; a
\* keyword that names no field, or no targets, is a TypeError of the call,
\* before any converter runs
DesirabilityObjectiveByKeyword(kwargs) ==
    IF ~(DOMAIN kwargs \subseteq {"targets", "weights", "scalarization"})
    THEN Raise("TypeError")
    ELSE IF "targets" \notin DOMAIN kwargs THEN Raise("TypeError")
    ELSE DesirabilityObjective(
             kwargs["targets"],
             IF "weights" \in DOMAIN kwargs
             THEN [given |-> TRUE, w |-> kwargs["weights"]]
             ELSE [given |-> FALSE, w |-> <<>>],
             IF "scalarization" \in DOMAIN kwargs THEN kwargs["scalarization"]
             ELSE "NOTHING")

\* the keyword arguments of a call: targets, the scalarization under the
\* name keyword and, if given, weights
KeywordArguments(targets, keyword, scalarization, weights) ==
    [k \in {"targets", keyword} \cup (IF weights.given THEN {"weights"} ELSE {}) |->
        IF k = "targets" THEN targets
        ELSE IF k = "weights" THEN weights.w
        ELSE scalarization]

\* lines 106-113: the expected object of a configuration; the targets are
\* constructed first, then the call is made with the keywords targets,
\* scalarizer and weights
expected(config) ==
    LET ts  == DirectTargets(config)
        err == FirstError([i \in DOMAIN ts |-> ts[i].status])
    IN  IF err # "ok" THEN Raise(err)
        ELSE DesirabilityObjectiveByKeyword(
                 KeywordArguments([i \in DOMAIN ts |-> ts[i].value], "scalarizer",
                                  config.combine_func, config.weights))

\* DesirabilityObjective(targets=..., weights=..., <keyword>=...), the
\* scalarization passed under the name of the field or under the name that
\* the test uses
NewDesirabilityObjectiveByKeyword ==
    /\ call = NoCall
    /\ \E targets \in TwoTargetLists, weights \in TableWeightInputs,
          keyword \in {"scalarization", "scalarizer"},
          scalarization \in {"MEAN", "GEOM_MEAN"} :
           LET kwargs == KeywordArguments(targets, keyword, scalarization, weights)
           IN  Construct("DesirabilityObjective", kwargs,
                         DesirabilityObjectiveByKeyword(kwargs))

\* test_deprecated_objective_config_deserialization, for a configuration
\* and the expected object written for it: an exception of lines 106-113
\* ends the test there; only with an expected object does the test go on
\* to Objective.from_json and the comparison of lines 114-115
TestDeprecatedConfig ==
    /\ call = NoCall
    /\ \E config \in Configs :
           Construct("test_deprecated_objective_config_deserialization", config,
                     expected(config))

ConfigSpec == Init /\ [][NewDesirabilityObjectiveByKeyword \/ TestDeprecatedConfig]_vars

(***************************************************************************)
(* BotorchRecommender (recommenders/pure/bayesian/botorch.py).  The        *)
(* BoTorch optimization routines are the environment: what a routine       *)
(* answers is an input of the call (env), and every invocation is recorded *)
(* in the order it was made.  A result is                                  *)
(* [status, value, routines]: the exception or "ok", the returned value    *)
(* and the invocations made before the method ended.                       *)
(***************************************************************************)
MaxBatch == 2

MaxThreshold == 2

Outcome(status, value, routines) ==
    [status |-> status, value |-> value, routines |-> routines]

\* the acquisition function of the recommender, by the one property read here
AcquisitionFunction(is_mc) == [cls |-> "AcquisitionFunction", is_mc |-> is_mc]

_validate_percentage(value) ==
    IF ~(RatLe(RatInt(0), value) /\ RatLe(value, RatInt(1))) THEN "ValueError" ELSE "ok"

\* the attrs validator ge(1) of n_threshold_inactive_parameters_generator
_validate_n_threshold(value) == IF value >= 1 THEN "ok" ELSE "ValueError"

BotorchRecommender(acquisition_function, sequential_continuous, hybrid_sampler, sampling_percentage, n_threshold) ==
    LET err == FirstError(<<_validate_percentage(sampling_percentage),
                            _validate_n_threshold(n_threshold)>>)
    IN  IF err # "ok" THEN Raise(err)
        ELSE Return([cls |-> "BotorchRecommender",
                     acquisition_function |-> acquisition_function,
                     sequential_continuous |-> sequential_continuous,
                     hybrid_sampler |-> hybrid_sampler,
                     sampling_percentage |-> sampling_percentage,
                     n_threshold_inactive_parameters_generator |-> n_threshold])

needs_mc_acqf_any_batch(self, batch_size) ==
    ~self.acquisition_function.is_mc

\* the condition that opens the three _recommend methods
needs_mc_acqf(self, batch_size) ==
    batch_size > 1 /\ ~self.acquisition_function.is_mc

\* torch.cat / the concatenation of a sequence of sequences
RECURSIVE Cat(_)
Cat(s) == IF s = <<>> THEN <<>> ELSE Head(s) \o Cat(Tail(s))

\* pd.merge(candidates_comp.reset_index(), points, on=columns)["index"]: an
\* inner join in the order of the candidates; a candidate row comes once per
\* point that equals it.  Rows and points are given by their index labels.
merge_index(rows, points) ==
    Cat([i \in DOMAIN rows |->
            [k \in 1..Cardinality({j \in DOMAIN points : points[j] = rows[i]}) |-> rows[i]]])

\* _recommend_discrete: env.points are the rows optimize_acqf_discrete picked;
\* the merge gives back their index labels
_recommend_discrete(self, candidates_comp, batch_size, env) ==
    IF needs_mc_acqf(self, batch_size)
    THEN Outcome("NoMCAcquisitionFunctionError", NoObject, <<>>)
    ELSE Outcome("ok",
                 [cls |-> "Index", index |-> merge_index(candidates_comp.index, env.points)],
                 <<[routine |-> "optimize_acqf_discrete", q |-> batch_size,
                    choices |-> candidates_comp.index]>>)

(***************************************************************************)
(* The continuous subspace (baybe.searchspace.continuous): its parameter   *)
(* names, its cardinality constraints and the parameters set inactive.  A  *)
(* cardinality constraint bounds the number of active (nonzero) parameters *)
(* among its parameters; an inactive-parameter combination is a set of     *)
(* parameters whose being zero meets the constraints.                      *)
(***************************************************************************)
ParamNames == <<"x1", "x2">>

ParamSets == <<{"x1"}, {"x2"}, {"x1", "x2"}, {}>>

inactive_parameter_combinations(subspace) ==
    IF subspace.constraints_cardinality = <<>> THEN <<>>
    ELSE LET c == subspace.constraints_cardinality[1]
             n == Cardinality(c.parameters)
             Fits(s) == /\ s \subseteq c.parameters
                        /\ n - c.max_cardinality <= Cardinality(s)
                        /\ Cardinality(s) <= n - c.min_cardinality
         IN  SelectSeq(ParamSets, Fits)

n_inactive_parameter_combinations(subspace) ==
    Len(inactive_parameter_combinations(subspace))

_remove_cardinality_constraints(subspace, inactive_parameters) ==
    [subspace EXCEPT !.constraints_cardinality = <<>>,
                     !.inactive = inactive_parameters]

\* optimize_acqf on a subspace: env.optimize_acqf gives, for the set of
\* inactive parameters, "ValueError" (infeasible) or the acquisition values
\* of the optimized batch: the joint value of the batch, or one value per
\* point when the batch was built sequentially
optimize_acqf(subspace, batch_size, sequential, env) ==
    LET answer == env.optimize_acqf[subspace.inactive]
    IN  IF answer.status # "ok" THEN Raise(answer.status)
        ELSE Return([points |-> [inactive |-> subspace.inactive, q |-> batch_size],
                     acqf_values |-> answer.acqf_values])

_recommend_continuous_without_cardinality_constraints(self, subspace, batch_size, env) ==
    IF subspace.constraints_cardinality # <<>>
    THEN Outcome("RuntimeError", NoObject, <<>>)
    ELSE LET r == optimize_acqf(subspace, batch_size, self.sequential_continuous, env)
         IN  Outcome(r.status, r.value,
                     <<[routine |-> "optimize_acqf", q |-> batch_size,
                        inactive |-> subspace.inactive,
                        sequential |-> self.sequential_continuous]>>)

\* the inner function of the loop: one optimization with the given
\* parameters inactive; a ValueError of the optimization is swallowed and
\* nothing is appended
append_recommendation_for_inactive_parameters_setting(self, subspace, batch_size, inactive_parameters, env) ==
    LET subspace_renewed == _remove_cardinality_constraints(subspace, inactive_parameters)
        r == _recommend_continuous_without_cardinality_constraints(
                 self, subspace_renewed, batch_size, env)
    IN  [status |-> r.status,
         appended |-> IF r.status = "ok" THEN <<r.value>> ELSE <<>>,
         routines |-> r.routines]

inactive_settings_all(self, subspace, env) ==
    inactive_parameter_combinations(subspace)

\* the settings the loop goes through, in order: env.samples are the draws
\* of _sample_inactive_parameters(1), each any of the combinations
inactive_settings(self, subspace, env) ==
    LET combinations == inactive_parameter_combinations(subspace)
        threshold == self.n_threshold_inactive_parameters_generator
    IN  IF n_inactive_parameter_combinations(subspace) > threshold
        THEN [k \in 1..threshold |-> combinations[env.samples[k]]]
        ELSE combinations

SeqMax(s) == CHOOSE v \in {s[i] : i \in DOMAIN s} : \A i \in DOMAIN s : s[i] <= v

\* torch.argmax without dim: the position of the first maximal value in the
\* flattened tensor; positions start at 0
argmax(s) == (CHOOSE i \in DOMAIN s :
                 /\ s[i] = SeqMax(s)
                 /\ \A j \in DOMAIN s : s[j] = SeqMax(s) => i <= j) - 1

_recommend_continuous_with_cardinality_constraints(self, subspace, batch_size, env) ==
    IF subspace.constraints_cardinality = <<>>
    THEN Outcome("RuntimeError", NoObject, <<>>)
    ELSE LET settings == inactive_settings(self, subspace, env)
             runs == [k \in DOMAIN settings |->
                         append_recommendation_for_inactive_parameters_setting(
                             self, subspace, batch_size, settings[k], env)]
             abort == SelectSeq(runs, LAMBDA r : r.status \notin {"ok", "ValueError"})
             done == IF abort = <<>> THEN runs
                     ELSE SubSeq(runs, 1, CHOOSE k \in DOMAIN runs :
                                     /\ runs[k].status \notin {"ok", "ValueError"}
                                     /\ \A j \in 1..(k - 1) : runs[j].status \in {"ok", "ValueError"})
             routines == Cat([k \in DOMAIN done |-> done[k].routines])
             appended == Cat([k \in DOMAIN done |-> done[k].appended])
             points_all == [k \in DOMAIN appended |-> appended[k].points]
             \* torch.cat of the rows acqf_values_i.unsqueeze(0), flattened
             acqf_values_all == Cat([k \in DOMAIN appended |-> appended[k].acqf_values])
         IN  IF abort # <<>> THEN Outcome(Head(abort).status, NoObject, routines)
             ELSE IF points_all = <<>> THEN Outcome("RuntimeError", NoObject, routines)
             ELSE IF argmax(acqf_values_all) >= Len(points_all)
                  THEN Outcome("IndexError", NoObject, routines)
             ELSE Outcome("ok",
                          [points |-> points_all[argmax(acqf_values_all) + 1],
                           acqf_values |-> SeqMax(acqf_values_all)],
                          routines)

\* the branch of _recommend_continuous on the cardinality constraints; its
\* answer is the pair (points, acquisition value) of the helper taken
_optimize_continuous(self, subspace, batch_size, env) ==
    IF Len(subspace.constraints_cardinality) # 0
    THEN _recommend_continuous_with_cardinality_constraints(self, subspace, batch_size, env)
    ELSE _recommend_continuous_without_cardinality_constraints(self, subspace, batch_size, env)

_recommend_continuous(self, subspace, batch_size, env) ==
    IF needs_mc_acqf(self, batch_size)
    THEN Outcome("NoMCAcquisitionFunctionError", NoObject, <<>>)
    ELSE LET r == _optimize_continuous(self, subspace, batch_size, env)
         IN  IF r.status # "ok" THEN r
             ELSE Outcome("ok",
                          [cls |-> "DataFrame", columns |-> subspace.param_names,
                           points |-> r.value.points],
                          r.routines)

(***************************************************************************)
(* _recommend_hybrid.  candidates_comp has the columns of the discrete     *)
(* parameters and one row per index label; the search space has the linear *)
(* constraints of its continuous part.  A local of the method is <<>>      *)
(* while nothing was assigned to it and <<v>> once it holds v.             *)
(***************************************************************************)
Ceil(a) == -((-a[1]) \div a[2])

\* c.to_botorch(parameters, idx_offset): the constraint with its parameter
\* positions shifted by idx_offset
to_botorch(c, idx_offset) == [constraint |-> c, idx_offset |-> idx_offset]

\* sample_numerical_df: env.sample are the rows kept, n_candidates of them
sample_numerical_df(candidates_comp, n_candidates, env) ==
    [candidates_comp EXCEPT !.index = env.sample]

OrNone(list) == IF list = <<>> THEN NoObject ELSE [cls |-> "list", items |-> list]

\* candidates_comp.columns = list(range(num_comp_columns))
renamed(candidates) ==
    [candidates EXCEPT !.columns = [i \in DOMAIN candidates.columns |-> i - 1]]

\* the caller's candidates_comp after a _recommend_hybrid call: without a
\* sampler the local candidates_comp is still the caller's table when its
\* columns are renamed; sample_numerical_df hands back a table of its own
candidates_comp_after(self, candidates_comp, batch_size) ==
    IF ~needs_mc_acqf(self, batch_size)
       /\ Len(candidates_comp.index) > 0
       /\ self.hybrid_sampler = "None"
    THEN renamed(candidates_comp)
    ELSE candidates_comp

\* reading a local that was never assigned from inside a comprehension:
\* NameError where the comprehension is a nested scope (Python up to 3.11),
\* UnboundLocalError where it is inlined (from 3.12)
unbound_in_comprehension_error(env) ==
    IF env.comprehension = "inlined" THEN "UnboundLocalError" ELSE "NameError"

_recommend_hybrid(self, searchspace, candidates_comp, batch_size, env) ==
    IF needs_mc_acqf(self, batch_size)
    THEN Outcome("NoMCAcquisitionFunctionError", NoObject, <<>>)
    ELSE
    LET nonempty == Len(candidates_comp.index) > 0
        n_candidates == Ceil(RatMul(self.sampling_percentage,
                                    RatInt(Len(candidates_comp.index))))
        sampled == IF nonempty /\ self.hybrid_sampler # "None"
                   THEN sample_numerical_df(candidates_comp, n_candidates, env)
                   ELSE candidates_comp
        candidates == IF nonempty THEN renamed(sampled) ELSE sampled
        num_comp_columns == IF nonempty THEN <<Len(candidates.columns)>> ELSE <<>>
        fixed_features_list == IF nonempty
                               THEN [cls |-> "list", items |-> candidates.index]
                               ELSE NoObject
        eq == searchspace.constraints_lin_eq
        ineq == searchspace.constraints_lin_ineq
        equality_constraints ==
            OrNone([i \in DOMAIN eq |-> to_botorch(eq[i], Len(candidates.columns))])
        \* the comprehension reads num_comp_columns once per constraint
        unbound_in_comprehension == ineq # <<>> /\ num_comp_columns = <<>>
        inequality_constraints ==
            OrNone([i \in DOMAIN ineq |-> to_botorch(ineq[i], num_comp_columns[1])])
        invocation == [routine |-> "optimize_acqf_mixed", q |-> batch_size,
                       fixed_features_list |-> fixed_features_list,
                       equality_constraints |-> equality_constraints,
                       inequality_constraints |-> inequality_constraints]
    IN  IF unbound_in_comprehension
        THEN Outcome(unbound_in_comprehension_error(env), NoObject, <<>>)
        ELSE IF env.optimize_acqf_mixed # "ok"
             THEN Outcome(env.optimize_acqf_mixed, NoObject, <<invocation>>)
        ELSE IF num_comp_columns = <<>>
             THEN Outcome("UnboundLocalError", NoObject, <<invocation>>)
        \* the discrete rows come in the order of the candidates, the
        \* continuous parts of the points in the order of the optimizer
        ELSE Outcome("ok",
                     [cls |-> "DataFrame",
                      columns |-> candidates_comp.columns \o searchspace.param_names,
                      index |-> merge_index(candidates.index, env.points),
                      cont_points |-> env.points],
                     <<invocation>>)

(***************************************************************************)
(* Inputs of the recommender calls.                                        *)
(***************************************************************************)
\* (is_mc, sequential_continuous, hybrid_sampler, sampling_percentage,
\* n_threshold_inactive_parameters_generator)
RecommenderArgs ==
    {<<m, s, "None", RatInt(1), t>> : m \in BOOLEAN, s \in BOOLEAN, t \in 0..MaxThreshold}
    \cup {<<TRUE, FALSE, "Random", p, MaxThreshold>> : p \in {Rat(1, 2), RatInt(1), Rat(3, 2)}}

BatchSizes == 1..MaxBatch

CardinalityConstraint(lo, hi) ==
    [parameters |-> {"x1", "x2"}, min_cardinality |-> lo, max_cardinality |-> hi]

Subspaces ==
    {[param_names |-> ParamNames, constraints_cardinality |-> cs, inactive |-> {}] :
        cs \in {<<>>, <<CardinalityConstraint(0, 0)>>, <<CardinalityConstraint(1, 1)>>,
                <<CardinalityConstraint(0, 1)>>}}

AcqValues == {1, 2}

\* what optimize_acqf can answer for a batch: infeasible, or acquisition
\* values of the shape the call asks for
Answers(batch_size, sequential) ==
    LET n == IF sequential /\ batch_size > 1 THEN batch_size ELSE 1
    IN  {[status |-> "ValueError", acqf_values |-> <<>>]}
        \cup {[status |-> "ok", acqf_values |-> v] : v \in [1..n -> AcqValues]}

ContinuousEnvs(self, subspace, batch_size) ==
    LET combinations == inactive_parameter_combinations(subspace)
        n == Len(combinations)
        threshold == self.n_threshold_inactive_parameters_generator
        keys == IF n = 0 THEN {{}} ELSE {combinations[i] : i \in 1..n}
        draws == IF n > threshold THEN [1..threshold -> 1..n] ELSE {<<>>}
    IN  {[optimize_acqf |-> f, samples |-> d] :
            f \in [keys -> Answers(batch_size, self.sequential_continuous)],
            d \in draws}

DiscreteCandidates ==
    {[columns |-> <<"d1">>, index |-> [i \in 1..k |-> i]] : k \in 0..MaxBatch}

\* ascending selections of k of the rows
Selections(rows, k) ==
    {s \in [1..k -> {rows[i] : i \in DOMAIN rows}] :
        \A i \in 1..k, j \in 1..k : i < j => s[i] < s[j]}

DiscreteEnvs(candidates_comp, batch_size) ==
    LET k == IF batch_size < Len(candidates_comp.index)
             THEN batch_size ELSE Len(candidates_comp.index)
        rows == {candidates_comp.index[i] : i \in DOMAIN candidates_comp.index}
    IN  {[points |-> s] : s \in {p \in [1..k -> rows] :
                                     \A i \in 1..k, j \in 1..k : i # j => p[i] # p[j]}}

SearchSpaces ==
    {[param_names |-> ParamNames, constraints_lin_eq |-> e, constraints_lin_ineq |-> i] :
        e \in {<<>>, <<"eq1">>}, i \in {<<>>, <<"ineq1">>}}

HybridEnvs(self, candidates_comp, batch_size) ==
    LET rows == candidates_comp.index
        n_candidates == Ceil(RatMul(self.sampling_percentage, RatInt(Len(rows))))
        samples == IF rows # <<>> /\ self.hybrid_sampler # "None"
                   THEN Selections(rows, n_candidates) ELSE {rows}
    IN  UNION {{[optimize_acqf_mixed |-> a, sample |-> s, points |-> p, comprehension |-> c] :
                   a \in {"ok", "ValueError"},
                   c \in {"nested", "inlined"},
                   p \in IF s = <<>> THEN {<<>>}
                         ELSE [1..batch_size -> {s[i] : i \in DOMAIN s}]} :
               s \in samples}

(***************************************************************************)
(* RecommenderSpec: a recommender is constructed and one of its three      *)
(* _recommend methods is called.  call.routines are the optimization       *)
(* routines invoked during the call, in order; call.optimum is what the    *)
(* continuous helper handed back to _recommend_continuous; call.after is   *)
(* the caller's table or subspace as the call left it.                     *)
(***************************************************************************)
NewBotorchRecommender ==
    /\ call = NoCall
    /\ \E a \in RecommenderArgs :
           /\ obj' = BotorchRecommender(AcquisitionFunction(a[1]), a[2], a[3], a[4], a[5]).value
           /\ call' = [op |-> "BotorchRecommender",
                       status |-> BotorchRecommender(AcquisitionFunction(a[1]),
                                                     a[2], a[3], a[4], a[5]).status,
                       args |-> a]
           /\ out' = NoOutput

Recommend(op, args, after, env, r, optimum) ==
    /\ call' = [op |-> op, status |-> r.status, args |-> args, after |-> after,
                env |-> env, routines |-> r.routines, optimum |-> optimum]
    /\ out' = IF r.status = "ok" THEN <<r.value>> ELSE NoOutput
    /\ UNCHANGED obj

Constructed == call.op = "BotorchRecommender" /\ call.status = "ok"

RecommendDiscrete ==
    /\ Constructed
    /\ \E candidates_comp \in {c \in DiscreteCandidates : c.index # <<>>},
          batch_size \in BatchSizes :
         \E env \in DiscreteEnvs(candidates_comp, batch_size) :
           Recommend("_recommend_discrete",
                     [candidates_comp |-> candidates_comp, batch_size |-> batch_size],
                     candidates_comp,
                     env,
                     _recommend_discrete(obj, candidates_comp, batch_size, env),
                     <<>>)

RecommendContinuous ==
    /\ Constructed
    /\ \E subspace \in Subspaces, batch_size \in BatchSizes :
         \E env \in ContinuousEnvs(obj, subspace, batch_size) :
           Recommend("_recommend_continuous",
                     [subspace |-> subspace, batch_size |-> batch_size],
                     subspace,
                     env,
                     _recommend_continuous(obj, subspace, batch_size, env),
                     IF ~needs_mc_acqf(obj, batch_size)
                        /\ _optimize_continuous(obj, subspace, batch_size, env).status = "ok"
                     THEN <<_optimize_continuous(obj, subspace, batch_size, env).value>>
                     ELSE <<>>)

RecommendHybrid ==
    /\ Constructed
    /\ \E searchspace \in SearchSpaces, candidates_comp \in DiscreteCandidates,
          batch_size \in BatchSizes :
         \E env \in HybridEnvs(obj, candidates_comp, batch_size) :
           Recommend("_recommend_hybrid",
                     [searchspace |-> searchspace, candidates_comp |-> candidates_comp,
                      batch_size |-> batch_size],
                     candidates_comp_after(obj, candidates_comp, batch_size),
                     env,
                     _recommend_hybrid(obj, searchspace, candidates_comp, batch_size, env),
                     <<>>)

NextRecommender ==
    \/ NewBotorchRecommender
    \/ RecommendDiscrete
    \/ RecommendContinuous
    \/ RecommendHybrid

RecommenderSpec == Init /\ [][NextRecommender]_vars

(***************************************************************************)
(* device_mode (utils/device_mode.py).  The GPyTorch settings are flags of *)
(* the process: obj.flags gives the value of each.  A flag's context       *)
(* manager keeps the value it found when it was created, sets its own on   *)
(* entry and puts the kept one back on exit, whether or not the body       *)
(* raised; it never swallows the exception.  call.stack are the with       *)
(* blocks that are open, of device_mode or of a single_device_mode manager *)
(* alone, the innermost last; a block is [block, state, managers, entry,   *)
(* disturbed], entry being the flags found on entry and disturbed telling  *)
(* whether the body of the block has entered a single_device_mode manager  *)
(* of its own.  call.held are the single_device_mode managers created so   *)
(* far; a manager can be entered any time after its creation, and again.   *)
(***************************************************************************)
MaxDepth == 2

MaxHeld == 1

Flags == {"single_device_mode", "debug", "covar_root_decomposition", "log_prob", "solves"}

\* _feature_flag.__init__
_feature_flag(flags, flag, state) ==
    [flag |-> flag, state |-> state, prev |-> flags[flag]]

\* _feature_flag.__enter__
_feature_flag_enter(flags, manager) ==
    [flags EXCEPT ![manager.flag] = manager.state]

\* _feature_flag.__exit__
_feature_flag_exit(flags, manager) ==
    [flags EXCEPT ![manager.flag] = manager.prev]

\* the flags that a settings manager of one kind sets, with their values:
\* single_device_mode(state) and debug(state) are one flag each,
\* fast_computations(solves=state) is one manager per flag of it, the two
\* not named at their default True
manager_items(kind, state) ==
    IF kind = "fast_computations"
    THEN <<[flag |-> "covar_root_decomposition", state |-> TRUE],
           [flag |-> "log_prob", state |-> TRUE],
           [flag |-> "solves", state |-> state]>>
    ELSE <<[flag |-> kind, state |-> state]>>

\* faulty variant: the fast computations are left at their defaults
device_mode_items_fast_solves(state) ==
    manager_items("single_device_mode", state) \o manager_items("debug", state)
        \o manager_items("fast_computations", TRUE)

\* the managers of the with statement of device_mode(state), in the order
\* written
device_mode_items(state) ==
    manager_items("single_device_mode", state) \o manager_items("debug", state)
        \o manager_items("fast_computations", FALSE)

\* with m1, m2, ...: each manager is created and entered before the next
RECURSIVE with_enter(_, _)
with_enter(flags, items) ==
    IF items = <<>> THEN [flags |-> flags, managers |-> <<>>]
    ELSE LET m == _feature_flag(flags, Head(items).flag, Head(items).state)
             rest == with_enter(_feature_flag_enter(flags, m), Tail(items))
         IN  [flags |-> rest.flags, managers |-> <<m>> \o rest.managers]

\* leaving the with statement: the managers exit in reverse order
RECURSIVE with_exit(_, _)
with_exit(flags, managers) ==
    IF managers = <<>> THEN flags
    ELSE with_exit(_feature_flag_exit(flags, managers[Len(managers)]),
                   SubSeq(managers, 1, Len(managers) - 1))

\* with m: for a manager created before, each of its flags is set
RECURSIVE enter_manager(_, _)
enter_manager(flags, managers) ==
    IF managers = <<>> THEN flags
    ELSE enter_manager(_feature_flag_enter(flags, Head(managers)), Tail(managers))

NoBlocks == [op |-> "none", status |-> "ok", stack |-> <<>>, left |-> <<>>, held |-> {}]

\* when the module is loaded the three settings that device_mode sets may
\* have any values; the two other flags of fast_computations have their
\* default True, which every manager of the model gives them too
InitDeviceMode ==
    /\ \E flags \in [Flags -> BOOLEAN] :
           /\ flags["covar_root_decomposition"] /\ flags["log_prob"]
           /\ obj = [cls |-> "settings", flags |-> flags]
    /\ call = NoBlocks
    /\ out = NoOutput

\* lines 6-7: whether gpytorch.settings._feature_flag can be imported as a
\* module depends on the installed GPyTorch
ImportDeviceMode ==
    /\ call.op = "none"
    /\ \E status \in {"ok", "ModuleNotFoundError"} :
           call' = [call EXCEPT !.op = "import", !.status = status]
    /\ UNCHANGED <<obj, out>>

Imported == call.op # "none" /\ call.status # "ModuleNotFoundError"

\* a with statement is entered: r has the managers entered and the flags
\* they leave, stack the blocks open around it
EnterBlock(block, state, r, stack) ==
    /\ obj' = [obj EXCEPT !.flags = r.flags]
    /\ call' = [op |-> "enter", status |-> "ok",
                stack |-> Append(stack,
                                 [block |-> block, state |-> state,
                                  managers |-> r.managers, entry |-> obj.flags,
                                  disturbed |-> {}]),
                left |-> <<>>, held |-> call.held]
    /\ UNCHANGED out

\* with device_mode(state): up to the yield; the body of the generator, and
\* with it the creation of the three managers, runs when the block is entered
EnterDeviceMode ==
    /\ Imported
    /\ Len(call.stack) < MaxDepth
    /\ \E state \in BOOLEAN :
           EnterBlock("device_mode", state,
                      with_enter(obj.flags, device_mode_items(state)), call.stack)

\* code around or inside a device_mode block creates a settings manager of
\* its own, m = single_device_mode(state) with the class of lines 9-11, or
\* debug(state) or fast_computations(solves=state) of the library: the
\* manager of each flag is created and keeps the flag's value of this
\* moment; nothing is set yet
CreateManager ==
    /\ Imported
    /\ Cardinality(call.held) < MaxHeld
    /\ \E kind \in {"single_device_mode", "debug", "fast_computations"}, state \in BOOLEAN :
           LET items == manager_items(kind, state)
               m == [kind |-> kind, state |-> state,
                     managers |-> [i \in DOMAIN items |->
                                      _feature_flag(obj.flags, items[i].flag,
                                                    items[i].state)]]
           IN  call' = [call EXCEPT !.op = "create", !.status = "ok", !.left = <<>>,
                                    !.held = @ \cup {m}]
    /\ UNCHANGED <<obj, out>>

\* the innermost open device_mode block, if any, notes the flags that its
\* body sets itself
Disturb(stack, flags) ==
    LET open == {k \in DOMAIN stack : stack[k].block = "device_mode"}
    IN  [k \in DOMAIN stack |->
            IF k \in open /\ (\A j \in open : j <= k)
            THEN [stack[k] EXCEPT !.disturbed = @ \cup flags] ELSE stack[k]]

\* with m: for a manager m created before, outside or inside a device_mode
\* block
EnterManager ==
    /\ Imported
    /\ Len(call.stack) < MaxDepth
    /\ \E m \in call.held :
           EnterBlock(m.kind, m.state,
                      [flags |-> enter_manager(obj.flags, m.managers),
                       managers |-> m.managers],
                      Disturb(call.stack,
                              {m.managers[i].flag : i \in DOMAIN m.managers}))

LeaveDeviceMode(op, status) ==
    /\ Imported
    /\ call.stack # <<>>
    /\ obj' = [obj EXCEPT !.flags = with_exit(obj.flags, call.stack[Len(call.stack)].managers)]
    /\ call' = [op |-> op, status |-> status,
                stack |-> SubSeq(call.stack, 1, Len(call.stack) - 1),
                left |-> <<call.stack[Len(call.stack)]>>, held |-> call.held]
    /\ UNCHANGED out

\* the body of the innermost block ends
ExitDeviceMode == LeaveDeviceMode("exit", "ok")

\* the body of the innermost block raises; the exception goes on to the
\* caller of the block
RaiseInDeviceMode == LeaveDeviceMode("raise", "Exception")

NextDeviceMode ==
    \/ ImportDeviceMode
    \/ EnterDeviceMode
    \/ CreateManager
    \/ EnterManager
    \/ ExitDeviceMode
    \/ RaiseInDeviceMode

DeviceModeSpec == InitDeviceMode /\ [][NextDeviceMode]_vars

(***************************************************************************)
(* Properties.                                                             *)
(***************************************************************************)
ExactlyOneFiniteEnd(b) == b.lower.fin # b.upper.fin

BothEndsFinite(b) == b.lower.fin /\ b.upper.fin

BothEndsInfinite(b) == ~b.lower.fin /\ ~b.upper.fin

IsDesirabilityCall ==
    \/ call.op = "DesirabilityObjective"
    \/ call.op = "Objective" /\ call.args.mode = "DESIRABILITY"

IsDesirabilityObject ==
    \/ obj.cls = "DesirabilityObjective"
    \/ obj.cls = "Objective" /\ obj.mode = "DESIRABILITY"

\* C1: once a Target or Objective is constructed, a transform call on data
\* that holds the target columns never raises.
C1_TransformNeverRaises ==
    (/\ call.op = "transform"
     /\ \/ obj.cls = "NumericalTarget"
        \/ \A i \in DOMAIN obj.targets : obj.targets[i].name \in DOMAIN call.args.data) =>
        call.status = "ok"

\* C2: a constructed Target has a transform kind allowed for its mode:
\* LINEAR or none for MIN and MAX, TRIANGULAR or BELL for MATCH.
C2_TransformKindAllowedForMode ==
    obj.cls = "NumericalTarget" =>
        /\ obj.mode \in {"MIN", "MAX"} => obj.bounds_transform_func \in {"LINEAR", "None"}
        /\ obj.mode = "MATCH" => obj.bounds_transform_func \in {"TRIANGULAR", "BELL"}

\* C3: constructing a Target whose bounds have exactly one finite end raises
\* a ValueError and hands out no object; the bounds of every constructed
\* Target are finite on both ends or infinite on both ends.
C3_NoHalfBoundedTarget ==
    /\ (call.op = "NumericalTarget" /\ ExactlyOneFiniteEnd(call.args.bounds)) =>
           (call.status = "ValueError" /\ obj = NoObject)
    /\ obj.cls = "NumericalTarget" =>
           (BothEndsFinite(obj.bounds) \/ BothEndsInfinite(obj.bounds))

C3_Witness ==
    /\ call.op = "NumericalTarget"
    /\ call.args.mode = "MAX"
    /\ call.args.bounds.lower.fin /\ ~call.args.bounds.upper.fin
    /\ call.status = "ValueError"
    /\ obj = NoObject

\* C4: constructing a Target in mode MATCH whose bounds are not finite on
\* both ends (the default bounds included) raises a ValueError; every
\* constructed MATCH target has finite bounds.
C4_MatchNeedsFiniteBounds ==
    /\ (call.op = "NumericalTarget" /\ call.args.mode = "MATCH"
            /\ ~BothEndsFinite(call.args.bounds)) =>
           (call.status = "ValueError" /\ obj = NoObject)
    /\ (obj.cls = "NumericalTarget" /\ obj.mode = "MATCH") => BothEndsFinite(obj.bounds)

C4_Witness ==
    /\ call.op = "NumericalTarget"
    /\ call.args.mode = "MATCH"
    /\ call.args.bounds = convert_bounds_default
    /\ call.status = "ValueError"
    /\ obj = NoObject

\* C5: constructing an Objective with a weight list that has a zero or
\* negative entry raises a ValueError and hands out no object.
C5_NonPositiveWeightRejected ==
    (/\ call.op \in {"Objective", "DesirabilityObjective"}
     /\ call.args.weights.given
     /\ \E i \in DOMAIN call.args.weights.w : call.args.weights.w[i] <= 0) =>
        (call.status = "ValueError" /\ obj = NoObject)

\* C6: the weights a DesirabilityObjective stores are all positive, sum to
\* 1, and any two of them are in the ratio of the weights that were passed.
C6_NormalizedWeights ==
    obj.cls = "DesirabilityObjective" =>
        /\ \A i \in DOMAIN obj.weights : RatLt(<<0, 1>>, obj.weights[i])
        /\ RatSum(obj.weights) = <<1, 1>>
        /\ call.op = "DesirabilityObjective" /\ call.args.weights.given =>
               /\ DOMAIN obj.weights = DOMAIN call.args.weights.w
               /\ \A i, j \in DOMAIN obj.weights :
                      RatMul(obj.weights[i], RatInt(call.args.weights.w[j]))
                          = RatMul(obj.weights[j], RatInt(call.args.weights.w[i]))

C6_Witness ==
    /\ obj.cls = "DesirabilityObjective"
    /\ call.op = "DesirabilityObjective"
    /\ call.args.weights = [given |-> TRUE, w |-> <<2, 1>>]
    /\ obj.weights = <<<<2, 3>>, <<1, 3>>>>

\* C7: constructing an objective with explicitly given weights whose count
\* differs from the number of targets raises a ValueError; every constructed
\* objective has one weight per target.
C7_OneWeightPerTarget ==
    /\ (/\ call.op \in {"Objective", "DesirabilityObjective"}
        /\ call.args.weights.given
        /\ Len(call.args.weights.w) # Len(call.args.targets)) =>
           (call.status = "ValueError" /\ obj = NoObject)
    /\ obj.cls \in {"Objective", "DesirabilityObjective"} =>
           Len(obj.weights) = Len(obj.targets)

\* the only flaw of the call is the count of the weights
C7_Witness ==
    /\ call.op = "DesirabilityObjective"
    /\ Len(call.args.targets) = 2
    /\ \A i \in DOMAIN call.args.targets :
           /\ call.args.targets[i].cls = "NumericalTarget"
           /\ BothEndsFinite(call.args.targets[i].bounds)
           /\ call.args.targets[i].bounds_transform_func = "LINEAR"
    /\ call.args.weights = [given |-> TRUE, w |-> <<1>>]
    /\ call.args.scalarization = "MEAN"
    /\ call.status = "ValueError"
    /\ obj = NoObject

\* C8: an objective that scalarizes by desirability has at least 2 targets.
C8_AtLeastTwoTargets ==
    IsDesirabilityObject => Len(obj.targets) >= 2

\* C9: constructing a desirability objective raises a ValueError if one of
\* its targets is no numerical target or has unbounded bounds; every target
\* of a constructed desirability objective has finite bounds.
C9_TargetsBounded ==
    /\ (/\ IsDesirabilityCall
        /\ \E i \in DOMAIN call.args.targets :
              \/ call.args.targets[i].cls # "NumericalTarget"
              \/ ~BothEndsFinite(call.args.targets[i].bounds)) =>
           (call.status = "ValueError" /\ obj = NoObject)
    /\ IsDesirabilityObject =>
           \A i \in DOMAIN obj.targets :
               /\ obj.targets[i].cls = "NumericalTarget"
               /\ BothEndsFinite(obj.targets[i].bounds)

\* the only flaw of the call is the unbounded second target
C9_Witness ==
    /\ call.op = "Objective"
    /\ call.args.mode = "DESIRABILITY"
    /\ Len(call.args.targets) = 2
    /\ BothEndsFinite(call.args.targets[1].bounds)
    /\ BothEndsInfinite(call.args.targets[2].bounds)
    /\ ~call.args.weights.given
    /\ call.args.combine_func = "MEAN"
    /\ call.status = "ValueError"
    /\ obj = NoObject

\* the result of the LINEAR transform at a bound, by mode
AtLower(mode) == IF mode = "MAX" THEN Num(<<0, 1>>) ELSE Num(<<1, 1>>)

AtUpper(mode) == IF mode = "MAX" THEN Num(<<1, 1>>) ELSE Num(<<0, 1>>)

\* C10: with finite bounds lower < upper and the LINEAR transform, transform
\* maps lower to 0 and upper to 1 in mode MAX, lower to 1 and upper to 0 in
\* mode MIN, a value outside the bounds to the result of the nearest bound,
\* and every value into [0, 1].
C10_LinearTransform ==
    (/\ call.op = "transform"
     /\ obj.cls = "NumericalTarget"
     /\ obj.mode \in {"MIN", "MAX"}
     /\ BothEndsFinite(obj.bounds)
     /\ obj.bounds.lower.val < obj.bounds.upper.val
     /\ obj.bounds_transform_func = "LINEAR") =>
        /\ call.status = "ok"
        /\ DOMAIN out = DOMAIN call.args.data
        /\ \A i \in DOMAIN call.args.data :
              LET x == call.args.data[i]
              IN  /\ out[i].k = "num"
                  /\ x <= obj.bounds.lower.val => out[i] = AtLower(obj.mode)
                  /\ x >= obj.bounds.upper.val => out[i] = AtUpper(obj.mode)
                  /\ RatLe(<<0, 1>>, RatOf(out[i]))
                  /\ RatLe(RatOf(out[i]), <<1, 1>>)

\* a MIN target has clipped a value below its bounds to 1
C10_Witness ==
    /\ call.op = "transform"
    /\ call.status = "ok"
    /\ obj.cls = "NumericalTarget"
    /\ obj.mode = "MIN"
    /\ obj.bounds = Interval(Fin(0), Fin(MaxBound))
    /\ obj.bounds_transform_func = "LINEAR"
    /\ call.args.data = <<-1>>
    /\ out = <<Num(<<1, 1>>)>>

\* C11: transform of a Target with unbounded bounds returns every value
\* unchanged in mode MAX and negated in mode MIN, whatever transform kind the
\* target was constructed with.
C11_UnboundedTransform ==
    (/\ call.op = "transform"
     /\ obj.cls = "NumericalTarget"
     /\ BothEndsInfinite(obj.bounds)) =>
        /\ call.status = "ok"
        /\ DOMAIN out = DOMAIN call.args.data
        /\ \A i \in DOMAIN call.args.data :
              /\ obj.mode = "MAX" => out[i] = Num(<<call.args.data[i], 1>>)
              /\ obj.mode = "MIN" => out[i] = Num(<<-call.args.data[i], 1>>)
              /\ obj.mode \in {"MIN", "MAX"}

\* an unbounded MIN target that was given the LINEAR transform negates
C11_Witness ==
    /\ call.op = "transform"
    /\ call.status = "ok"
    /\ obj.cls = "NumericalTarget"
    /\ obj.mode = "MIN"
    /\ obj.bounds = convert_bounds_default
    /\ obj.bounds_transform_func = "LINEAR"
    /\ call.args.data = <<MaxBound>>
    /\ out = <<Num(<<-MaxBound, 1>>)>>

\* the bounds pass the validation of the bounds for the mode
BoundsValidFor(mode, b) ==
    \/ BothEndsFinite(b)
    \/ BothEndsInfinite(b) /\ mode # "MATCH"

\* C20: a Target constructed without a transform kind gets LINEAR (modes MIN
\* and MAX) or TRIANGULAR (mode MATCH) if its bounds are bounded and none if
\* they are unbounded, and the construction fails only if the bounds are
\* invalid for the mode, never on the validation of the transform kind.
C20_DefaultTransformKind ==
    (call.op = "NumericalTarget" /\ call.args.func = "NOTHING") =>
        /\ call.status = "ok" <=> BoundsValidFor(call.args.mode, call.args.bounds)
        /\ call.status = "ok" =>
              /\ obj.cls = "NumericalTarget"
              /\ obj.bounds_transform_func =
                     IF BothEndsInfinite(obj.bounds) THEN "None"
                     ELSE IF obj.mode = "MATCH" THEN "TRIANGULAR"
                     ELSE "LINEAR"

C20_Witness ==
    /\ call.op = "NumericalTarget"
    /\ call.args.func = "NOTHING"
    /\ call.args.mode = "MATCH"
    /\ BothEndsFinite(call.args.bounds)
    /\ call.status = "ok"
    /\ obj.bounds_transform_func = "TRIANGULAR"

\* the scalarization of an objective that scalarizes, and the name of the
\* column it returns
KindOf(o) == IF o.cls = "DesirabilityObjective" THEN o.scalarization ELSE o.combine_func

HasZero(row) == \E j \in DOMAIN row : row[j] = Num(<<0, 1>>)

PositiveWeights(w) == \A i \in DOMAIN w : RatLt(<<0, 1>>, w[i])

\* the only column of a returned table
OnlyColumn(t) == t[CHOOSE c \in DOMAIN t : TRUE]

\* C12: with the geometric mean, every row of per-target scores that holds a
\* 0 is scalarized to exactly 0, whatever the other scores of the row and the
\* positive weights are, and the call does not raise: for a direct call of
\* scalarize and for the transform of an objective.
C12_GeometricMeanZero ==
    /\ (call.op = "scalarize" /\ call.args.scalarization = "GEOM_MEAN") =>
           /\ call.status = "ok"
           /\ DOMAIN out = DOMAIN call.args.values
           /\ \A r \in DOMAIN call.args.values :
                  HasZero(call.args.values[r]) => out[r] = Num(<<0, 1>>)
    /\ (/\ call.op = "transform"
        /\ IsDesirabilityObject
        /\ KindOf(obj) = "GEOM_MEAN"
        /\ PositiveWeights(obj.weights)
        /\ TransformTargets(obj, call.args.data).status = "ok") =>
           /\ call.status = "ok"
           /\ \A r \in Rows(call.args.data) :
                  HasZero(ValuesOf(TransformTargets(obj, call.args.data).output,
                                   call.args.data)[r])
                      => OnlyColumn(out)[r] = Num(<<0, 1>>)

\* a MAX target at its lower bound next to a MIN target at its lower bound:
\* the scores 0 and 1 have the geometric mean 0 under the weights 1/3, 2/3
C12_Witness ==
    /\ call.op = "transform"
    /\ call.status = "ok"
    /\ obj.cls = "DesirabilityObjective"
    /\ obj.scalarization = "GEOM_MEAN"
    /\ obj.weights = <<<<1, 3>>, <<2, 3>>>>
    /\ obj.targets[1].mode = "MAX" /\ obj.targets[2].mode = "MIN"
    /\ call.args.data = [c \in {"A", "B"} |-> <<0>>]
    /\ out = [c \in {"Desirability"} |-> <<Num(<<0, 1>>)>>]

\* C19: scalarize called with a kind that is neither the geometric nor the
\* arithmetic mean raises NotImplementedError and returns no values; with one
\* of the two kinds it never raises NotImplementedError, and neither does the
\* transform of a constructed objective.
C19_UnknownScalarization ==
    /\ (call.op = "scalarize" /\ call.args.scalarization \notin {"GEOM_MEAN", "MEAN"}) =>
           (call.status = "NotImplementedError" /\ out = NoOutput)
    /\ (call.op = "scalarize" /\ call.args.scalarization \in {"GEOM_MEAN", "MEAN"}) =>
           call.status # "NotImplementedError"
    /\ call.op = "transform" => call.status # "NotImplementedError"

C19_Witness ==
    /\ call.op = "scalarize"
    /\ call.args.scalarization = "MEDIAN"
    /\ call.status = "NotImplementedError"
    /\ out = NoOutput

\* the transform method of the class of an objective
TransformOf(o, data) ==
    IF o.cls = "DesirabilityObjective" THEN DesirabilityObjective_transform(o, data)
    ELSE Objective_transform(o, data)

TargetNames(o) == {o.targets[i].name : i \in DOMAIN o.targets}

\* row r of the target columns of a table, as a table of one row
TargetRow(o, data, r) ==
    [c \in TargetNames(o) \cap DOMAIN data |-> <<data[c][r]>>]

\* the returned table has the one column name and the rows of the input, and
\* each of its rows is what the objective returns for that row of the target
\* columns alone
OneColumnRowByRow(name) ==
    /\ DOMAIN out = {name}
    /\ DOMAIN out[name] = Rows(call.args.data)
    /\ \A r \in Rows(call.args.data) :
           LET alone == TransformOf(obj, TargetRow(obj, call.args.data, r))
           IN  /\ alone.status = "ok"
               /\ out[name][r] = OnlyColumn(alone.output)[1]

\* C13 as claimed: a table returned by the transform of a desirability
\* objective has exactly the column "Desirability" and the row index of the
\* input, and columns of no target neither change the result nor show in it.
C13_DesirabilityColumn ==
    (call.op = "transform" /\ call.status = "ok" /\ IsDesirabilityObject) =>
        OneColumnRowByRow("Desirability")

\* the name of the column by the class of the objective
ResultColumn(o) == IF o.cls = "DesirabilityObjective" THEN "Desirability" ELSE "Comp_Target"

\* C13 amended: the one column is named "Desirability" by DesirabilityObjective
\* and "Comp_Target" by the legacy Objective in mode DESIRABILITY; the rest
\* of the claim is kept.
C13_SingleColumn ==
    (call.op = "transform" /\ call.status = "ok" /\ IsDesirabilityObject) =>
        OneColumnRowByRow(ResultColumn(obj))

\* two rows in, two rows out in the same order, the column X left out
C13_Witness ==
    /\ call.op = "transform"
    /\ call.status = "ok"
    /\ obj.cls = "DesirabilityObjective"
    /\ obj.scalarization = "MEAN"
    /\ obj.weights = <<<<1, 2>>, <<1, 2>>>>
    /\ obj.targets[1].mode = "MAX" /\ obj.targets[2].mode = "MAX"
    /\ call.args.data = [c \in {"A", "B", ExtraColumn} |->
                            IF c = "A" THEN <<0, MaxBound>>
                            ELSE IF c = "B" THEN <<0, 0>> ELSE <<0, 0>>]
    /\ out = [c \in {"Desirability"} |-> <<Num(<<0, 1>>), Num(<<1, 2>>)>>]

\* C14: when the table lacks the column of a target, the transform of an
\* objective raises KeyError and returns nothing, also for the targets whose
\* columns are there.
C14_MissingColumn ==
    (/\ call.op = "transform"
     /\ obj.cls \in {"Objective", "DesirabilityObjective"}
     /\ \E i \in DOMAIN obj.targets : obj.targets[i].name \notin DOMAIN call.args.data) =>
        (call.status = "KeyError" /\ out = NoOutput)

\* the column of the first target is there, the column of the second is not
C14_Witness ==
    /\ call.op = "transform"
    /\ obj.cls = "DesirabilityObjective"
    /\ DOMAIN call.args.data = {obj.targets[1].name, ExtraColumn}
    /\ obj.targets[2].name \notin DOMAIN call.args.data
    /\ call.status = "KeyError"
    /\ out = NoOutput

\* C15: no step of a transform call, of one that returns and of one that
\* raises, changes a field of the objective or of its targets or the table
\* the caller passed.
C15_TransformChangesNothing ==
    [][/\ obj' = obj
       /\ \A c \in Callers :
              call[c].pc # "idle" => call'[c].args.data = call[c].args.data]_vars

\* a call of a DesirabilityObjective has returned and its table still holds
\* the raw values
C15_Witness ==
    \E c \in Callers :
        /\ obj.cls = "DesirabilityObjective"
        /\ call[c].pc = "done"
        /\ call[c].status = "ok"
        /\ call[c].args.data = [n \in {"A", "B"} |-> <<Num(<<MaxBound, 1>>)>>]
        /\ out[c] = [n \in {"Desirability"} |-> <<Num(<<1, 3>>)>>]

\* what the call of caller c returns or raises when it runs alone
Alone(c) == TransformOf(obj, RawTable(call[c].args.data))

\* C16: however the calls of the callers interleave, a call that has ended
\* has raised or returned exactly what the same call does when it runs
\* alone; two calls on equal tables that have ended have ended alike.
C16_InterleavingFree ==
    /\ \A c \in Callers :
           call[c].pc = "done" =>
               /\ call[c].status = Alone(c).status
               /\ out[c] = Alone(c).output
    /\ \A c, d \in Callers :
           (/\ call[c].pc = "done" /\ call[d].pc = "done"
            /\ call[c].args.data = call[d].args.data) =>
               (call[c].status = call[d].status /\ out[c] = out[d])

\* two calls on different tables have both returned, each its own result
C16_Witness ==
    /\ obj.cls = "DesirabilityObjective"
    /\ obj.scalarization = "MEAN"
    /\ call[1].pc = "done" /\ call[2].pc = "done"
    /\ call[1].status = "ok" /\ call[2].status = "ok"
    /\ call[1].args.data = [n \in {"A", "B"} |-> <<Num(<<MaxBound, 1>>)>>]
    /\ call[2].args.data = [n \in {"A", "B"} |-> <<Num(<<0, 1>>)>>]
    /\ out[1] = [n \in {"Desirability"} |-> <<Num(<<1, 3>>)>>]
    /\ out[2] = [n \in {"Desirability"} |-> <<Num(<<2, 3>>)>>]

\* C17: the objective of target A (MAX, [0, 10], LINEAR) and target B (MIN,
\* [0, 100], LINEAR) with the weights [1, 3] and the arithmetic mean stores
\* the weights [1/4, 3/4], and its transform of the row A = 10, B = 0 is 1,
\* both targets being transformed to 1.
C17_ScenarioWeightedMean ==
    /\ (/\ call.op = "DesirabilityObjective"
        /\ call.args.weights = [given |-> TRUE, w |-> <<1, 3>>]) =>
           /\ call.status = "ok"
           /\ obj.targets = ScenarioTargets
           /\ obj.weights = <<<<1, 4>>, <<3, 4>>>>
    /\ (/\ call.op = "transform"
        /\ obj.weights = <<<<1, 4>>, <<3, 4>>>>
        /\ obj.scalarization = "MEAN"
        /\ call.args.data = [c \in {"A", "B"} |-> IF c = "A" THEN <<10>> ELSE <<0>>]) =>
           /\ call.status = "ok"
           /\ NumericalTarget_transform(obj.targets[1], call.args.data["A"]).output
                  = <<Num(<<1, 1>>)>>
           /\ NumericalTarget_transform(obj.targets[2], call.args.data["B"]).output
                  = <<Num(<<1, 1>>)>>
           /\ out = [c \in {"Desirability"} |-> <<Num(<<1, 1>>)>>]

C17_Witness ==
    /\ call.op = "transform"
    /\ call.status = "ok"
    /\ obj.targets = ScenarioTargets
    /\ obj.weights = <<<<1, 4>>, <<3, 4>>>>
    /\ obj.scalarization = "MEAN"
    /\ call.args.data = [c \in {"A", "B"} |-> IF c = "A" THEN <<10>> ELSE <<0>>]
    /\ out = [c \in {"Desirability"} |-> <<Num(<<1, 1>>)>>]

\* the configuration of test_deprecations.py:81-101
deprecated_objective_config ==
    [mode |-> "DESIRABILITY",
     targets |-> << [type |-> "NumericalTarget", name |-> "Yield", mode |-> "MAX",
                     bounds |-> <<Fin(0), Fin(1)>>],
                    [type |-> "NumericalTarget", name |-> "Waste", mode |-> "MIN",
                     bounds |-> <<Fin(0), Fin(1)>>] >>,
     combine_func |-> "MEAN",
     weights |-> [given |-> TRUE, w |-> <<1, 2>>]]

RecommendOps == {"_recommend_discrete", "_recommend_continuous", "_recommend_hybrid"}

\* C21: in each of _recommend_discrete, _recommend_continuous and
\* _recommend_hybrid, a call with batch_size > 1 and an acquisition function
\* that is not Monte Carlo raises NoMCAcquisitionFunctionError and no
\* optimization routine was invoked before it; a call with batch_size 1 or
\* with a Monte Carlo acquisition function never raises this error.
C21_McAcquisitionRequired ==
    call.op \in RecommendOps =>
        IF call.args.batch_size > 1 /\ ~obj.acquisition_function.is_mc
        THEN call.status = "NoMCAcquisitionFunctionError" /\ call.routines = <<>>
        ELSE call.status # "NoMCAcquisitionFunctionError"

C21_Witness ==
    /\ call.op = "_recommend_hybrid"
    /\ call.args.batch_size > 1
    /\ ~obj.acquisition_function.is_mc
    /\ call.status = "NoMCAcquisitionFunctionError"
    /\ call.routines = <<>>


\* a _recommend_continuous call on a subspace with cardinality constraints
\* that went past the test of the acquisition function
CardinalityCall ==
    /\ call.op = "_recommend_continuous"
    /\ call.args.subspace.constraints_cardinality # <<>>
    /\ call.status # "NoMCAcquisitionFunctionError"

\* the inactive-parameter settings optimized during the call, in order
OptimizedSettings == [k \in DOMAIN call.routines |-> call.routines[k].inactive]

\* C22: in a continuous recommendation with cardinality constraints, if
\* there are more possible inactive-parameter combinations than
\* n_threshold_inactive_parameters_generator, exactly that threshold number
\* of optimizations is run, each on a sampled combination; otherwise every
\* possible combination is optimized exactly once.
C22_SettingsOptimized ==
    CardinalityCall =>
        LET combinations == inactive_parameter_combinations(call.args.subspace)
            threshold == obj.n_threshold_inactive_parameters_generator
        IN  IF Len(combinations) > threshold
            THEN /\ Len(OptimizedSettings) = threshold
                 /\ \A k \in DOMAIN OptimizedSettings :
                        \E i \in DOMAIN combinations : OptimizedSettings[k] = combinations[i]
                 /\ \A k \in DOMAIN call.routines :
                        call.routines[k].routine = "optimize_acqf"
            ELSE /\ Len(OptimizedSettings) = Len(combinations)
                 /\ \A i \in DOMAIN combinations :
                        Cardinality({k \in DOMAIN OptimizedSettings :
                                        OptimizedSettings[k] = combinations[i]}) = 1

\* three combinations over a threshold of two: two optimizations were run
C22_Witness ==
    /\ CardinalityCall
    /\ Len(inactive_parameter_combinations(call.args.subspace))
           > obj.n_threshold_inactive_parameters_generator
    /\ obj.n_threshold_inactive_parameters_generator > 1
    /\ Len(OptimizedSettings) = obj.n_threshold_inactive_parameters_generator
    /\ call.status = "ok"

\* two combinations within the threshold: each was optimized once
C22_WitnessAll ==
    /\ CardinalityCall
    /\ Len(inactive_parameter_combinations(call.args.subspace)) = 2
    /\ obj.n_threshold_inactive_parameters_generator >= 2
    /\ Len(OptimizedSettings) = 2
    /\ OptimizedSettings[1] # OptimizedSettings[2]


\* what the optimization of the k-th setting of the call answered
AnswerOf(k) == call.env.optimize_acqf[call.routines[k].inactive]

\* the optimizations of the call that succeeded
Successes == {k \in DOMAIN call.routines : AnswerOf(k).status = "ok"}

\* the number of optimizations the loop runs when nothing cuts it short
LoopLength ==
    LET n == Len(inactive_parameter_combinations(call.args.subspace))
        threshold == obj.n_threshold_inactive_parameters_generator
    IN  IF n > threshold THEN threshold ELSE n

\* the call returned the points and the acquisition value of a successful
\* optimization whose acquisition value no other successful one exceeds
ReturnedBest ==
    /\ call.status = "ok"
    /\ \E k \in Successes :
           /\ call.optimum[1].points.inactive = call.routines[k].inactive
           /\ call.optimum[1].acqf_values = SeqMax(AnswerOf(k).acqf_values)
           /\ \A j \in Successes :
                  SeqMax(AnswerOf(j).acqf_values) <= SeqMax(AnswerOf(k).acqf_values)

\* C23: in a continuous recommendation with cardinality constraints, an
\* optimization that raises ValueError is skipped and the loop goes on to
\* its end; when at least one optimization succeeded the call returns, and
\* the points and the acquisition value returned are those of a successful
\* optimization with the maximal acquisition value.
C23_BestFeasible ==
    CardinalityCall =>
        /\ Len(call.routines) = LoopLength
        /\ Successes # {} => ReturnedBest

\* the same for calls whose optimizations answer one joint value per batch
C23_BestFeasibleJoint ==
    (CardinalityCall /\ ~(obj.sequential_continuous /\ call.args.batch_size > 1)) =>
        /\ Len(call.routines) = LoopLength
        /\ Successes # {} => ReturnedBest

\* an infeasible setting came first and a later one gave the result
C23_SkippedWitness ==
    /\ CardinalityCall
    /\ Len(call.routines) > 1
    /\ AnswerOf(1).status = "ValueError"
    /\ ReturnedBest


\* a _recommend_hybrid call that went past the test of the acquisition
\* function
HybridCall ==
    /\ call.op = "_recommend_hybrid"
    /\ call.status # "NoMCAcquisitionFunctionError"

\* errors of reading a local of the method that was never assigned
BookkeepingErrors == {"NameError", "UnboundLocalError"}

\* the index offsets handed to the optimizer with the constraints
Offsets(constraints) ==
    IF constraints = NoObject THEN {}
    ELSE {constraints.items[i].idx_offset : i \in DOMAIN constraints.items}

\* C25: when the discrete candidates passed to _recommend_hybrid are empty,
\* the optimizer is called with no fixed-features list, and the call does
\* not end in an error of the recommender's own bookkeeping: the values it
\* uses are defined on this path, and the index offsets of the equality and
\* of the inequality constraints are the same number.
C25_EmptyCandidates ==
    (HybridCall /\ call.args.candidates_comp.index = <<>>) =>
        /\ Len(call.routines) = 1
        /\ call.routines[1].routine = "optimize_acqf_mixed"
        /\ call.routines[1].fixed_features_list = NoObject
        /\ call.status \notin BookkeepingErrors
        /\ Cardinality(Offsets(call.routines[1].equality_constraints)
                        \cup Offsets(call.routines[1].inequality_constraints)) <= 1

\* with candidates the optimizer is called once, with a fixed-features list
\* and one offset, and the bookkeeping raises nothing
C25_WithCandidates ==
    (HybridCall /\ call.args.candidates_comp.index # <<>>) =>
        /\ Len(call.routines) = 1
        /\ call.routines[1].fixed_features_list # NoObject
        /\ call.status \notin BookkeepingErrors
        /\ Cardinality(Offsets(call.routines[1].equality_constraints)
                        \cup Offsets(call.routines[1].inequality_constraints)) <= 1

C25_WithCandidatesWitness ==
    /\ HybridCall
    /\ call.args.candidates_comp.index # <<>>
    /\ call.args.searchspace.constraints_lin_eq # <<>>
    /\ call.args.searchspace.constraints_lin_ineq # <<>>
    /\ call.status = "ok"


\* the settings named by device_mode's contract
DeviceSettings == {"single_device_mode", "debug", "solves"}

\* the open device_mode blocks, by their position in the stack
OpenDeviceModes == {k \in DOMAIN call.stack : call.stack[k].block = "device_mode"}

InnermostDeviceMode == CHOOSE k \in OpenDeviceModes : \A j \in OpenDeviceModes : j <= k

\* the value that device_mode(state) gives a setting
DeviceModeValue(f, state) == IF f = "solves" THEN FALSE ELSE state

\* C24: inside a device_mode(state) block, the innermost one when blocks are
\* nested, single_device_mode and debug have the value state and fast
\* solves are disabled: right after the block is entered, and for each of
\* the three settings as long as the body has not entered a manager of that
\* setting itself; when a device_mode block has been left, by the end of its
\* body or by an exception raised in it, each of the three settings has the
\* value it had immediately before that block was entered, whatever the
\* body did and also for a block nested in another.
C24_DeviceModeRestores ==
    /\ OpenDeviceModes # {} =>
           \A f \in DeviceSettings \ call.stack[InnermostDeviceMode].disturbed :
               obj.flags[f] = DeviceModeValue(f, call.stack[InnermostDeviceMode].state)
    /\ (call.op = "enter" /\ call.stack[Len(call.stack)].block = "device_mode") =>
           \A f \in DeviceSettings :
               obj.flags[f] = DeviceModeValue(f, call.stack[Len(call.stack)].state)
    /\ (call.op \in {"exit", "raise"} /\ call.left[1].block = "device_mode") =>
           \A f \in DeviceSettings : obj.flags[f] = call.left[1].entry[f]

\* an inner device_mode block with the other state, entered where fast
\* solves were enabled before the outer block, was left by an exception and
\* the outer device_mode block is still open, with its own values back
C24_Witness ==
    /\ call.op = "raise"
    /\ call.left[1].block = "device_mode"
    /\ call.stack # <<>>
    /\ call.stack[Len(call.stack)].block = "device_mode"
    /\ call.stack[Len(call.stack)].disturbed = {}
    /\ call.left[1].state # call.stack[Len(call.stack)].state
    /\ call.stack[1].entry["solves"]
    /\ obj.flags["single_device_mode"] = call.stack[Len(call.stack)].state
    /\ obj.flags["single_device_mode"] # call.left[1].state
    /\ ~obj.flags["solves"]

\* a device_mode(True) block whose body entered and left a manager that
\* enables fast solves was left: inside the block the other two settings
\* kept the value of the block, and fast solves are enabled again as they
\* were before the block
C24_WitnessBodyManager ==
    /\ call.op = "exit"
    /\ call.left[1].block = "device_mode"
    /\ call.left[1].disturbed = {"covar_root_decomposition", "log_prob", "solves"}
    /\ call.left[1].state
    /\ call.left[1].entry["solves"]
    /\ ~call.left[1].entry["debug"]
    /\ \E m \in call.held : m.kind = "fast_computations" /\ m.state
    /\ obj.flags["solves"]
    /\ ~obj.flags["debug"]


====
